---- MODULE Spec2Model ----
(***************************************************************************)
(* Model of the release-manager core: the Debian package reversioner       *)
(* (reversion.rs), the repository publisher with its lock recovery         *)
(* (debian_publish.rs), the content-addressed cache (storage.rs) and the   *)
(* registry promoter (docker_promote.rs).  Each component has its own      *)
(* specification over the shared variable list; the variables of the other *)
(* components stay unchanged.                                              *)
(***************************************************************************)
EXTENDS Integers, Sequences, FiniteSets, TLC

VARIABLES
    \* ---- reversioner (reversion.rs)
    rv_pc,      \* position inside reversion_debian_package
    rv_cfg,     \* ReversionConfig of the call in progress
    rv_trace,   \* stages started by the call, in order
    rv_failed,  \* the stage whose failure was observed ("" when none)
    rv_result,  \* ManagerResult returned by the call
    rv_fs,      \* the directory of the source archive: file -> content
    rv_tmp,     \* the TempDir owned by the DebianReversioner
    rv_src0,    \* content of deb_path when the call started
    rv_builds,  \* number of archives built so far (serial of the next build)
    rv_repack,  \* rebuild_package of this call: how it ended and what was at
                \* the output path before it
    rv_doc,     \* usr/share/doc of the extracted package: changelog file -> content
    rv_chlog,   \* how the changelog step of this call ended ("" while it has not run)
    \* ---- repository publisher (debian_publish.rs), one entry per publisher
    pb_now,     \* the wall clock, in seconds
    pb_marker,  \* the lock marker of the partition: NoMarker or [owner, created]
    pb_pc,      \* position of each publisher inside publish()
    pb_cfg,     \* DebianPublishConfig of the call in progress
    pb_stderr,  \* what the failed upload's stderr indicates ("lock", "other", "")
    pb_obs,     \* what remove_lockfile read from the listing: [kind, age]
    pb_rec,     \* the ManagerResult of remove_lockfile
    pb_rm,      \* outcome of the delete command ("" when not issued)
    pb_cmds,    \* external commands issued by the call, in order
    pb_result,  \* the ManagerResult of publish()
    pb_broken,  \* the first removal of a marker whose upload was still in progress
    pb_up,      \* how the upload command of the call ended ("" while it has not)
    pb_ver,     \* how the verify command of the call ended ("" when not issued)
    pb_repo,    \* the repository: the publishers whose package is in it
    \* ---- content-addressed cache (storage.rs)
    ch_backend, \* the StorageBackend variant
    ch_remote,  \* the remote store: file -> content hash
    ch_pc,      \* position inside get_cached_debian_or_download
    ch_art,     \* artifact_full_name of the call in progress
    ch_dir,     \* whether <cache_folder>/<codename> exists
    ch_cache,   \* the cache directory: file -> content hash
    ch_target,  \* target_hash
    ch_cmds,    \* storage operations issued by the call, in order
    ch_result,  \* the ManagerResult of the call
    ch_changes, \* upstream changes so far
    ch_read,    \* the cached files whose md5sum the scan of this call could read
    ch_seen,    \* per artifact: target_hash of its last successful call
    ch_fresh,   \* artifact of the call that has just succeeded, "" once the
                \* remote changed or another call failed
    ch_picked,  \* the cache entry publish_debian gave the reversioner after the
                \* call: [file, hash] (NoPick when none)
    \* ---- registry promoter (docker_promote.rs)
    dk_pc,      \* position inside promote_docker_image
    dk_cfg,     \* DockerPromoteConfig of the call in progress (for a direct call
                \* of the manager: the one with the same name, tags and target)
    dk_reg,     \* DockerRegistryConfig handed to the DockerRegistryManager
    dk_cmds,    \* docker commands issued by the call, in order
    dk_failed,  \* the docker command that failed ("" when none)
    dk_result,  \* the ManagerResult of the call
    dk_registry,\* the registries: image reference -> content digest
    dk_local,   \* the local image store: image reference -> content digest
    \* ---- control-file patching (reversion.rs, update_control_content)
    cc_pc,      \* "idle" before the call, "done" after it
    cc_cfg,     \* the ReversionConfig fields the patching reads
    cc_in,      \* content: the control file as read
    cc_named,   \* result after the package-name step
    cc_versioned, \* result after the version step
    cc_suited,  \* result after the distribution step
    cc_out,     \* the returned content
    \* ---- release operations (commands/publish.rs, commands/promote.rs)
    op_pc,      \* position inside execute and the call it is making
    op_args,    \* PublishArgs / PromoteArgs of the run
    op_todo,    \* the Debian calls the loops of execute have still to make
    op_id,      \* the artifact identity of the call in progress
    op_rev,     \* the path the reversioner returned to the call (NoPath when none)
    op_handed,  \* the path the call gave the repository publisher (NoPath when none)
    op_handoffs,\* what the run has given the publisher so far
    op_log,     \* the commands and stages the run has started, in order
    op_result   \* the ManagerResult of execute

rvVars == <<rv_pc, rv_cfg, rv_trace, rv_failed, rv_result, rv_fs, rv_tmp, rv_src0, rv_builds,
            rv_repack, rv_doc, rv_chlog>>
pbVars == <<pb_now, pb_marker, pb_pc, pb_cfg, pb_stderr, pb_obs, pb_rec, pb_rm, pb_cmds,
            pb_result, pb_broken, pb_up, pb_ver, pb_repo>>

chVars == <<ch_backend, ch_remote, ch_pc, ch_art, ch_dir, ch_cache, ch_target, ch_cmds,
            ch_result, ch_changes, ch_read, ch_seen, ch_fresh, ch_picked>>

dkVars == <<dk_pc, dk_cfg, dk_reg, dk_cmds, dk_failed, dk_result, dk_registry, dk_local>>

ccVars == <<cc_pc, cc_cfg, cc_in, cc_named, cc_versioned, cc_suited, cc_out>>

opVars == <<op_pc, op_args, op_todo, op_id, op_rev, op_handed, op_handoffs, op_log,
            op_result>>

vars == <<rvVars, pbVars, chVars, dkVars, ccVars, opVars>>

\* What a step of one component leaves alone: the other components.
rv_Frame == UNCHANGED <<pbVars, chVars, dkVars, ccVars, opVars>>
pb_Frame == UNCHANGED <<rvVars, chVars, dkVars, ccVars, opVars>>
ch_Frame == UNCHANGED <<rvVars, pbVars, dkVars, ccVars, opVars>>
dk_Frame == UNCHANGED <<rvVars, pbVars, chVars, ccVars, opVars>>
cc_Frame == UNCHANGED <<rvVars, pbVars, chVars, dkVars, opVars>>
op_Frame == UNCHANGED <<rvVars, pbVars, chVars, dkVars, ccVars>>

----------------------------------------------------------------------------
(* Results: ManagerResult<T> as a record; kind names the ManagerError      *)
(* variant ("Ok" for success, "None" while no call has returned), at names *)
(* the step that produced it.                                              *)

NoResult == [kind |-> "None", at |-> ""]
Ok(at) == [kind |-> "Ok", at |-> at]
Err(kind, at) == [kind |-> kind, at |-> at]

IsErr(r) == r.kind \notin {"None", "Ok"}

IsPrefix(s, t) == Len(s) <= Len(t) /\ \A i \in 1..Len(s) : s[i] = t[i]

----------------------------------------------------------------------------
(*                          PackageReversioner                             *)

\* Number of archives one model run may build (the serial that tells the
\* content of one build from another).
MaxBuilds == 1

Names == {"mina-archive", "mina-archive-devnet"}
Versions == {"1.0.0", "1.0.1"}
NoName == "<none>"          \* Option::None for new_name

\* A file of the source directory is "<name>_<version>.deb".
DebFile(name, version) == <<name, version>>
Files == (Names \cup {""}) \X Versions

\* Content of a file: absent, an archive that was there from the start, or the
\* archive written by the serial-th build.
Absent == [kind |-> "absent", serial |-> 0]
Orig == [kind |-> "orig", serial |-> 0]
Built(serial) == [kind |-> "built", serial |-> serial]

ReversionConfigs ==
    [ deb_path : Names \X Versions,
      package_name : Names \cup {""},
      source_version : Versions \cup {""},
      new_version : Versions \cup {""},
      new_name : {NoName, ""} \cup Names ]

NoRepack == [outcome |-> "", before |-> Absent]

\* The changelog files of usr/share/doc/<name>/ in the extracted package.  A
\* file is absent, the one the package shipped ("old") or the new entry.
CompressedNames == {"changelog.Debian.gz", "changelog.gz"}
DocFiles == (Names \cup {""}) \X (CompressedNames \cup {"changelog.Debian"})
NoDoc == [f \in DocFiles |-> "absent"]
\* the package ships the compressed changelogs named in shipped, under its own name
Extracted(cfg, shipped) ==
    [f \in DocFiles |-> IF f[1] = cfg.package_name /\ f[2] \in shipped THEN "old" ELSE "absent"]

NoConfig == [ deb_path |-> <<"", "">>, package_name |-> "", source_version |-> "",
              new_version |-> "", new_name |-> NoName ]

\* The stages of reversion(), in the order the code calls them.
Stages == <<"validate_inputs", "extract_package", "modify_control_files", "rebuild_package">>

\* validate_inputs: the first failing check decides.
ValidateInputs(cfg, fs) ==
    IF fs[cfg.deb_path] = Absent THEN Err("IoError", "validate_inputs")
    ELSE IF cfg.source_version = "" THEN Err("ValidationError", "validate_inputs")
    ELSE IF cfg.new_version = "" THEN Err("ValidationError", "validate_inputs")
    ELSE IF cfg.package_name = "" THEN Err("ValidationError", "validate_inputs")
    ELSE Ok("validate_inputs")

\* rebuild_package: the name of the new archive, beside the source.
FinalName(cfg) == IF cfg.new_name = NoName THEN cfg.package_name ELSE cfg.new_name
NewDebPath_KeepingName(cfg) == DebFile(cfg.package_name, cfg.new_version)
NewDebPath(cfg) == DebFile(FinalName(cfg), cfg.new_version)

\* The call returns: the DebianReversioner is dropped and with it its TempDir.
rv_Return_KeepingTemp(result, failedStage) ==
    /\ rv_pc' = "done"
    /\ rv_result' = result
    /\ rv_failed' = failedStage
    /\ rv_tmp' = rv_tmp
rv_Return(result, failedStage) ==
    /\ rv_pc' = "done"
    /\ rv_result' = result
    /\ rv_failed' = failedStage
    /\ rv_tmp' = IF rv_tmp = "none" THEN "none" ELSE "removed"

\* reversion_debian_package up to the first await: DebianReversioner::new
\* creates the TempDir, reversion() validates the inputs.
reversion_debian_package(cfg, tempOk) ==
    /\ rv_pc = "idle"
    /\ rv_cfg' = cfg
    /\ rv_src0' = rv_fs[cfg.deb_path]
    /\ UNCHANGED <<rv_fs, rv_builds, rv_repack, rv_doc, rv_chlog>>
    /\ rv_Frame
    /\ IF ~tempOk
         THEN /\ rv_pc' = "done"
              /\ rv_result' = Err("IoError", "new")
              /\ rv_failed' = ""
              /\ rv_tmp' = "none"
              /\ rv_trace' = <<>>
         ELSE /\ rv_trace' = <<"validate_inputs">>
              /\ IF IsErr(ValidateInputs(cfg, rv_fs))
                   THEN /\ rv_pc' = "done"
                        /\ rv_result' = ValidateInputs(cfg, rv_fs)
                        /\ rv_failed' = "validate_inputs"
                        /\ rv_tmp' = "removed"
                   ELSE /\ rv_pc' = "validated"
                        /\ rv_result' = NoResult
                        /\ rv_failed' = ""
                        /\ rv_tmp' = "created"

\* extract_package: create <temp>/extracted, run dpkg-deb -R.
ExtractOutcomes == {"ok", "mkdir_failed", "spawn_failed", "exit_failed"}
extract_package_IgnoringFailure(outcome) ==
    /\ rv_pc = "validated"
    /\ rv_trace' = Append(rv_trace, "extract_package")
    /\ UNCHANGED <<rv_cfg, rv_fs, rv_src0, rv_builds, rv_result, rv_repack, rv_chlog>>
    /\ rv_Frame
    /\ \E shipped \in SUBSET CompressedNames : rv_doc' = Extracted(rv_cfg, shipped)
    /\ rv_pc' = "extracted"
    /\ rv_tmp' = "extracted"
    /\ rv_failed' = IF outcome = "ok" THEN rv_failed ELSE "extract_package"
extract_package(outcome) ==
    /\ rv_pc = "validated"
    /\ rv_trace' = Append(rv_trace, "extract_package")
    /\ UNCHANGED <<rv_cfg, rv_fs, rv_src0, rv_builds, rv_repack, rv_chlog>>
    /\ rv_Frame
    /\ IF outcome = "ok"
         THEN /\ rv_pc' = "extracted"
              /\ rv_tmp' = "extracted"
              /\ \E shipped \in SUBSET CompressedNames : rv_doc' = Extracted(rv_cfg, shipped)
              /\ UNCHANGED <<rv_result, rv_failed>>
         ELSE /\ UNCHANGED rv_doc
              /\ rv_Return(Err(IF outcome = "mkdir_failed" THEN "IoError" ELSE "CommandFailed",
                            "extract_package"), "extract_package")

\* update_changelog: the changelog step runs when the doc directory of the
\* package name holds changelog.Debian.gz or changelog.gz.
HasChangelog(cfg, doc) ==
    \E n \in CompressedNames : doc[<<cfg.package_name, n>>] # "absent"

\* create_changelog_entry: the entry goes to changelog.Debian in the doc
\* directory of the final name and is compressed by gzip -f, which replaces
\* changelog.Debian by changelog.Debian.gz.  A failure of a step is printed;
\* after a failed write gzip finds no file and fails too.
ChangelogOutcomes == {"ok", "mkdir_failed", "write_failed", "gzip_spawn_failed",
                      "gzip_exit_failed"}
create_changelog_entry(cfg, doc, chlog) ==
    LET dir == FinalName(cfg)
    IN  CASE chlog = "ok" ->
               [doc EXCEPT ![<<dir, "changelog.Debian.gz">>] = "entry",
                           ![<<dir, "changelog.Debian">>] = "absent"]
          [] chlog \in {"gzip_spawn_failed", "gzip_exit_failed"} ->
               [doc EXCEPT ![<<dir, "changelog.Debian">>] = "entry"]
          [] OTHER -> doc

\* What update_changelog returns to modify_control_files.
update_changelog_Propagating(chlog) ==
    IF chlog \in {"ok", "absent"} THEN Ok("update_changelog")
    ELSE Err("IoError", "update_changelog")
update_changelog(chlog) == Ok("update_changelog")

\* modify_control_files: patch DEBIAN/control, then the changelog step.
ModifyOutcomes == {"ok", "no_control", "read_failed", "write_failed"}
modify_control_files(outcome, chlog) ==
    /\ rv_pc = "extracted"
    /\ rv_trace' = Append(rv_trace, "modify_control_files")
    /\ UNCHANGED <<rv_cfg, rv_fs, rv_src0, rv_builds, rv_repack>>
    /\ rv_Frame
    /\ IF outcome = "ok"
         THEN LET ran == HasChangelog(rv_cfg, rv_doc)
                  how == IF ran THEN chlog ELSE "absent"
              IN  /\ ~ran => chlog = "ok"
                  \* create_dir_all fails only on a directory it has to create
                  /\ chlog = "mkdir_failed" => FinalName(rv_cfg) # rv_cfg.package_name
                  /\ rv_chlog' = how
                  /\ rv_doc' = IF ran THEN create_changelog_entry(rv_cfg, rv_doc, chlog)
                                ELSE rv_doc
                  /\ IF update_changelog(how).kind = "Ok"
                       THEN /\ rv_pc' = "patched"
                            /\ UNCHANGED <<rv_result, rv_failed, rv_tmp>>
                       ELSE rv_Return(update_changelog(how), "modify_control_files")
         ELSE /\ chlog = "ok"
              /\ UNCHANGED <<rv_doc, rv_chlog>>
              /\ rv_Return(Err("IoError", "modify_control_files"), "modify_control_files")

\* rebuild_package: remove a pre-existing file of the new name, run
\* dpkg-deb --build, check that the output exists.
RebuildOutcomes == {"ok", "remove_failed", "spawn_failed", "exit_failed", "output_missing"}
rebuild_package(outcome) ==
    LET out == NewDebPath(rv_cfg)
        existed == rv_fs[out] # Absent
    IN  /\ rv_pc = "patched"
        /\ rv_trace' = Append(rv_trace, "rebuild_package")
        /\ UNCHANGED <<rv_cfg, rv_src0, rv_doc, rv_chlog>>
        /\ rv_Frame
        /\ outcome = "remove_failed" => existed
        /\ rv_repack' = [outcome |-> outcome, before |-> rv_fs[out]]
        /\ CASE outcome = "remove_failed" ->
                  /\ UNCHANGED <<rv_fs, rv_builds>>
                  /\ rv_Return(Err("IoError", "remove_file"), "rebuild_package")
             [] outcome \in {"spawn_failed", "exit_failed"} ->
                  /\ rv_fs' = [rv_fs EXCEPT ![out] = Absent]
                  /\ UNCHANGED rv_builds
                  /\ rv_Return(Err("CommandFailed", "dpkg-deb --build"), "rebuild_package")
             [] outcome = "output_missing" ->
                  /\ rv_fs' = [rv_fs EXCEPT ![out] = Absent]
                  /\ UNCHANGED rv_builds
                  /\ rv_Return(Err("IoError", "NotFound"), "rebuild_package")
             [] outcome = "ok" ->
                  /\ rv_fs' = [rv_fs EXCEPT ![out] = Built(rv_builds + 1)]
                  /\ rv_builds' = rv_builds + 1
                  /\ rv_Return(Ok("rebuild_package"), "")

\* The caller takes the result; the next call starts from the directory as
\* this one left it.
rv_NextCall ==
    /\ rv_pc = "done"
    /\ rv_builds < MaxBuilds
    /\ rv_pc' = "idle"
    /\ rv_cfg' = NoConfig
    /\ rv_trace' = <<>>
    /\ rv_failed' = ""
    /\ rv_result' = NoResult
    /\ rv_tmp' = "none"
    /\ rv_src0' = Absent
    /\ rv_repack' = NoRepack
    /\ rv_doc' = NoDoc
    /\ rv_chlog' = ""
    /\ UNCHANGED <<rv_fs, rv_builds>>
    /\ rv_Frame

\* No call in progress.
rv_Idle ==
    /\ rv_pc = "idle"
    /\ rv_cfg = NoConfig
    /\ rv_trace = <<>>
    /\ rv_failed = ""
    /\ rv_result = NoResult
    /\ rv_tmp = "none"
    /\ rv_src0 = Absent
    /\ rv_builds = 0
    /\ rv_repack = NoRepack
    /\ rv_doc = NoDoc
    /\ rv_chlog = ""

\* The reversioner is not used: an empty directory.
rv_Quiet == rv_Idle /\ rv_fs = [f \in Files |-> Absent]

\* The directory holds any set of archives named "<name>_<version>.deb".
rv_Init ==
    /\ rv_Idle
    /\ rv_fs \in [Files -> {Absent, Orig}]
    /\ \A f \in Files : f[1] = "" => rv_fs[f] = Absent

----------------------------------------------------------------------------
(*              PackageReversioner: update_control_content                 *)

\* Text is a sequence of tokens; a token stands for the characters it shows.
\* The patterns the code searches for are sequences of whole tokens.
NL == "\n"
SP == " "

\* The control files patched have at most MaxLines lines.
MaxLines == 3

Least(S) == CHOOSE i \in S : \A j \in S : i <= j

\* str::find: the position of the first occurrence of pat in s, 0 when none.
Find(s, pat) ==
    LET at == {i \in 1..(Len(s) - Len(pat) + 1) : SubSeq(s, i, i + Len(pat) - 1) = pat}
    IN  IF at = {} THEN 0 ELSE Least(at)

\* str::contains
Contains(s, pat) == Find(s, pat) # 0

\* str::ends_with
EndsWith(s, pat) == Len(pat) <= Len(s) /\ SubSeq(s, Len(s) - Len(pat) + 1, Len(s)) = pat

\* str::starts_with
StartsWith(s, pat) == Len(pat) <= Len(s) /\ SubSeq(s, 1, Len(pat)) = pat

\* str::replace: every non-overlapping occurrence, from the left.
RECURSIVE ReplaceAll(_, _, _)
ReplaceAll(s, pat, new) ==
    LET i == Find(s, pat)
    IN  IF i = 0 THEN s
        ELSE SubSeq(s, 1, i - 1) \o new \o ReplaceAll(SubSeq(s, i + Len(pat), Len(s)), pat, new)

\* str::lines: split at line feeds; a final line feed ends the last line and
\* starts no new one.
RECURSIVE Lines(_)
Lines(s) ==
    IF s = <<>> THEN <<>>
    ELSE LET i == Find(s, <<NL>>)
         IN  IF i = 0 THEN <<s>>
             ELSE <<SubSeq(s, 1, i - 1)>> \o Lines(SubSeq(s, i + 1, Len(s)))

\* str::trim_end
RECURSIVE TrimEnd(_)
TrimEnd(line) ==
    IF line # <<>> /\ line[Len(line)] = SP THEN TrimEnd(SubSeq(line, 1, Len(line) - 1))
    ELSE line

\* [String]::join
RECURSIVE Join(_, _)
Join(lines, sep) ==
    IF lines = <<>> THEN <<>>
    ELSE IF Len(lines) = 1 THEN lines[1]
    ELSE lines[1] \o sep \o Join(Tail(lines), sep)

\* The fields of ReversionConfig that update_control_content reads.
ControlConfigs ==
    [ package_name : {"mina-archive"},
      new_name : {NoName, "mina-rosetta"},
      source_version : {"1.0.0"},
      new_version : {"1.0.1"},
      new_suite : {"stable"} ]

\* Lines a control file is made of: the Package line, a Package line of a
\* longer name, a field whose name ends in "Package", the Version line, a
\* field whose name ends in "Version", a Distribution line, a field with
\* trailing blanks, a continuation line, a line of blanks, an empty line.
ControlLines ==
    { <<"Package:", SP, "mina-archive">>,
      <<"Package:", SP, "mina-archive", "-devnet">>,
      <<"X-", "Package:", SP, "mina-archive">>,
      <<"Version:", SP, "1.0.0", "-1">>,
      <<"X-", "Version:", SP, "1.0.0">>,
      <<"Distribution:", SP, "unstable">>,
      <<"Description:", SP, "text", SP>>,
      <<SP, "text">>,
      <<SP>>,
      <<>> }

\* Control files: up to MaxLines lines, the last one with or without its line
\* feed.
ControlInputs ==
    { Join(ls, <<NL>>) \o end :
        ls \in UNION { [1..n -> ControlLines] : n \in 0..MaxLines },
        end \in {<<>>, <<NL>>} }

\* Update package name if specified.
PackageStep(cfg, content) ==
    LET package_pattern == <<"Package:", SP, cfg.package_name>>
        new_package_line == <<"Package:", SP, cfg.new_name>>
    IN  IF cfg.new_name # NoName /\ Contains(content, package_pattern)
          THEN ReplaceAll(content, package_pattern, new_package_line)
          ELSE content

\* replace_range on the text from the first occurrence of pattern up to the
\* next line feed, when there is such an occurrence and such a line feed.
FieldSpan(result, pattern) ==
    LET start == Find(result, pattern)
        rest == IF start = 0 THEN <<>> ELSE SubSeq(result, start, Len(result))
        len == Find(rest, <<NL>>)
    IN  IF start = 0 \/ len = 0 THEN <<0, 0>> ELSE <<start, start + len - 1>>

\* Update version: in the span found, every occurrence of source_version.
VersionStep(cfg, result) ==
    LET span == FieldSpan(result, <<"Version:", SP>>)
        version_line == SubSeq(result, span[1], span[2] - 1)
    IN  IF span[1] # 0 /\ Contains(version_line, <<cfg.source_version>>)
          THEN SubSeq(result, 1, span[1] - 1)
               \o ReplaceAll(version_line, <<cfg.source_version>>, <<cfg.new_version>>)
               \o SubSeq(result, span[2], Len(result))
          ELSE result

\* Update distribution/suite in control file if present.
DistributionStep(cfg, result) ==
    LET span == FieldSpan(result, <<"Distribution:", SP>>)
    IN  IF span[1] # 0
          THEN SubSeq(result, 1, span[1] - 1)
               \o <<"Distribution:", SP, cfg.new_suite>>
               \o SubSeq(result, span[2], Len(result))
          ELSE result

\* The end of update_control_content: a final line feed, trailing blanks
\* trimmed line by line, the lines joined, a final line feed.
Normalize(result) ==
    LET terminated == IF EndsWith(result, <<NL>>) THEN result ELSE Append(result, NL)
        lines == Lines(terminated)
        joined == Join([i \in 1..Len(lines) |-> TrimEnd(lines[i])], <<NL>>)
    IN  IF EndsWith(joined, <<NL>>) THEN joined ELSE Append(joined, NL)

\* update_control_content(content)
update_control_content ==
    /\ cc_pc = "idle"
    /\ cc_pc' = "done"
    /\ cc_named' = PackageStep(cc_cfg, cc_in)
    /\ cc_versioned' = VersionStep(cc_cfg, cc_named')
    /\ cc_suited' = DistributionStep(cc_cfg, cc_versioned')
    /\ cc_out' = Normalize(cc_suited')
    /\ UNCHANGED <<cc_cfg, cc_in>>
    /\ cc_Frame

cc_Idle ==
    /\ cc_pc = "idle"
    /\ cc_named = <<>>
    /\ cc_versioned = <<>>
    /\ cc_suited = <<>>
    /\ cc_out = <<>>

cc_Quiet ==
    /\ cc_Idle
    /\ cc_cfg = [ package_name |-> "mina-archive", new_name |-> NoName,
                  source_version |-> "1.0.0", new_version |-> "1.0.1", new_suite |-> "stable" ]
    /\ cc_in = <<>>

cc_Init ==
    /\ cc_Idle
    /\ cc_cfg \in ControlConfigs
    /\ cc_in \in ControlInputs

----------------------------------------------------------------------------
(*                          RepositoryPublisher                            *)

\* Publishers that may run against the same partition at the same time.
NumPubs == 2
Pubs == 1..NumPubs

\* remove_lockfile deletes a marker only if it is older than this (seconds).
StaleAfter == 300

\* The clock is observed at these instants: up to MaxSmallTicks seconds after
\* each multiple of StaleAfter up to MaxBigTicks, so that marker ages just
\* below, at and above the threshold all occur.
MaxBigTicks == 1
MaxSmallTicks == 1
TimePoints == { b * StaleAfter + t : b \in 0..MaxBigTicks, t \in 0..MaxSmallTicks }

NoMarker == [owner |-> 0, created |-> 0]
Marker(p, t) == [owner |-> p, created |-> t]

\* The fields of DebianPublishConfig that validate_config reads, and whether
\* the package file exists ("file").  At most MaxEmptyFields of the six are
\* empty or missing in one call.
MaxEmptyFields == 1
PublishFields == {"package_path", "version", "bucket", "codename", "release"}
PublishConfigs ==
    { c \in [PublishFields \cup {"file"} -> {"", "x"}] :
        Cardinality({f \in PublishFields \cup {"file"} : c[f] = ""}) <= MaxEmptyFields }
NoPublishConfig == [f \in PublishFields \cup {"file"} |-> ""]

\* validate_config, then the check that the package file exists.
ValidateConfig_NoFileCheck(c) ==
    IF \E f \in PublishFields : c[f] = "" THEN Err("ValidationError", "validate_config")
    ELSE Ok("validate_config")
ValidateConfig(c) ==
    IF c["package_path"] = "" THEN Err("ValidationError", "validate_config")
    ELSE IF c["version"] = "" THEN Err("ValidationError", "validate_config")
    ELSE IF c["bucket"] = "" THEN Err("ValidationError", "validate_config")
    ELSE IF c["codename"] = "" THEN Err("ValidationError", "validate_config")
    ELSE IF c["release"] = "" THEN Err("ValidationError", "validate_config")
    ELSE IF c["file"] = "" THEN Err("ValidationError", "file_exists")
    ELSE Ok("validate_config")

\* What remove_lockfile makes of the listing.
NoObs == [kind |-> "", age |-> 0]
Obs(kind, age) == [kind |-> kind, age |-> age]

\* The first removal of a marker whose upload was still in progress: who
\* removed it, whose it was, and what the remover had read from the listing.
NoBreak == [by |-> 0, owner |-> 0, obs |-> NoObs]

\* The staleness test of remove_lockfile: time_diff > 300.
IsStale_AtThreshold(age) == age >= StaleAfter
IsStale_Always(age) == age >= 0
IsStale_Inverted(age) == age < StaleAfter
IsStale(age) == age > StaleAfter

\* The error publish() returns for a failed upload, whatever lock recovery
\* (rec) returned: the recovery result is only printed.
UploadFailure_FromRecovery(rec) == IF IsErr(rec) THEN rec ELSE Err("CommandFailed", "upload")
UploadFailure(rec) == Err("CommandFailed", "upload")

pb_Set(var, p, v) == [var EXCEPT ![p] = v]

\* publish() returns r.
pb_Return(p, r) ==
    /\ pb_pc' = pb_Set(pb_pc, p, "done")
    /\ pb_result' = pb_Set(pb_result, p, r)

\* publish() up to the upload command: validate_config and the file check.
publish(p, c) ==
    /\ pb_pc[p] = "idle"
    /\ pb_cfg' = pb_Set(pb_cfg, p, c)
    /\ IF IsErr(ValidateConfig(c))
         THEN pb_Return(p, ValidateConfig(c))
         ELSE /\ pb_pc' = pb_Set(pb_pc, p, "upload")
              /\ UNCHANGED pb_result
    /\ UNCHANGED <<pb_now, pb_marker, pb_stderr, pb_obs, pb_rec, pb_rm, pb_cmds, pb_broken,
                   pb_up, pb_ver, pb_repo>>
    /\ pb_Frame

\* deb-s3 upload --lock starts.  It takes the lock when no marker is there;
\* otherwise, or on any other early error, it exits non-zero.  A stderr that
\* mentions "lockfile" or "locked" sends publish() into remove_lockfile.
UploadStartOutcomes == {"locked_in", "spawn_failed", "failed_lock", "failed_other"}
\* stderr.contains("lockfile") || stderr.contains("locked")
IsLockConflict_AnyFailure(outcome) == outcome \in {"failed_lock", "failed_other"}
IsLockConflict(outcome) == outcome = "failed_lock"
upload_start(p, outcome) ==
    /\ pb_pc[p] = "upload"
    /\ pb_cmds' = pb_Set(pb_cmds, p, Append(pb_cmds[p], "upload"))
    /\ outcome = "locked_in" => pb_marker = NoMarker
    /\ pb_up' = pb_Set(pb_up, p, IF outcome = "locked_in" THEN "" ELSE outcome)
    /\ CASE outcome = "locked_in" ->
              /\ pb_marker' = Marker(p, pb_now)
              /\ pb_pc' = pb_Set(pb_pc, p, "uploading")
              /\ UNCHANGED <<pb_stderr, pb_result>>
         [] outcome = "spawn_failed" ->
              /\ pb_Return(p, Err("CommandFailed", "upload_spawn"))
              /\ UNCHANGED <<pb_marker, pb_stderr>>
         [] outcome \in {"failed_lock", "failed_other"} ->
              /\ pb_stderr' = pb_Set(pb_stderr, p, IF outcome = "failed_lock" THEN "lock"
                                                   ELSE "other")
              /\ IF IsLockConflict(outcome)
                   THEN /\ pb_pc' = pb_Set(pb_pc, p, "ls")
                        /\ UNCHANGED pb_result
                   ELSE pb_Return(p, UploadFailure(NoResult))
              /\ UNCHANGED pb_marker
    /\ UNCHANGED <<pb_now, pb_cfg, pb_obs, pb_rec, pb_rm, pb_broken, pb_ver, pb_repo>>
    /\ pb_Frame

\* deb-s3 upload ends.  It removes the lockfile on its way out unless it
\* crashed, which leaves the marker behind.  A successful upload has put the
\* package into the repository.
UploadEndOutcomes == {"ok", "failed_other", "crashed"}
upload_end(p, outcome) ==
    /\ pb_pc[p] = "uploading"
    /\ pb_marker' = IF outcome = "crashed" THEN pb_marker ELSE NoMarker
    /\ pb_up' = pb_Set(pb_up, p, outcome)
    /\ pb_repo' = IF outcome = "ok" THEN pb_repo \cup {p} ELSE pb_repo
    /\ IF outcome = "ok"
         THEN /\ pb_pc' = pb_Set(pb_pc, p, "verify")
              /\ UNCHANGED <<pb_stderr, pb_result>>
         ELSE /\ pb_stderr' = pb_Set(pb_stderr, p, "other")
              /\ pb_Return(p, UploadFailure(NoResult))
    /\ UNCHANGED <<pb_now, pb_cfg, pb_obs, pb_rec, pb_rm, pb_cmds, pb_broken, pb_ver>>
    /\ pb_Frame

\* remove_lockfile, the listing: aws s3 ls <lockfile path>.
\*   spawn_failed  the command could not be run
\*   not_found     non-zero exit or empty output: "No lockfile found"
\*   few_fields    fewer than two whitespace-separated fields
\*   bad_date      two fields that do not parse as "%Y-%m-%d %H:%M:%S"
\*   stamp         the marker's timestamp
ListOutcomes == {"spawn_failed", "not_found", "few_fields", "bad_date", "stamp"}
remove_lockfile(p, outcome) ==
    LET age == pb_now - pb_marker.created
        finish(rec) ==
            /\ pb_rec' = pb_Set(pb_rec, p, rec)
            /\ pb_Return(p, UploadFailure(rec))
        delete ==
            /\ pb_pc' = pb_Set(pb_pc, p, "rm")
            /\ UNCHANGED <<pb_rec, pb_result>>
    IN  /\ pb_pc[p] = "ls"
        /\ pb_cmds' = pb_Set(pb_cmds, p, Append(pb_cmds[p], "ls"))
        /\ outcome = "stamp" => pb_marker # NoMarker
        /\ pb_obs' = pb_Set(pb_obs, p, Obs(outcome, IF outcome = "stamp" THEN age ELSE 0))
        /\ CASE outcome = "spawn_failed" -> finish(Err("CommandFailed", "ls"))
             [] outcome = "not_found" -> finish(Ok("ls"))
             [] outcome = "few_fields" -> delete
             [] outcome = "bad_date" -> finish(Err("ValidationError", "parse_timestamp"))
             [] outcome = "stamp" ->
                  IF IsStale(age) THEN delete
                  ELSE finish(Err("ValidationError", "too_recent"))
        /\ UNCHANGED <<pb_now, pb_marker, pb_cfg, pb_stderr, pb_rm, pb_broken,
                       pb_up, pb_ver, pb_repo>>
        /\ pb_Frame

\* delete_lockfile: aws s3 rm <lockfile path>, which removes whatever marker
\* is at the path now; then the rest of remove_lockfile and of publish().
DeleteOutcomes == {"ok", "spawn_failed", "exit_failed"}
delete_lockfile_ThenRetry(p, outcome) ==
    /\ pb_pc[p] = "rm"
    /\ pb_cmds' = pb_Set(pb_cmds, p, Append(pb_cmds[p], "rm"))
    /\ pb_rm' = pb_Set(pb_rm, p, outcome)
    /\ pb_marker' = IF outcome = "ok" THEN NoMarker ELSE pb_marker
    /\ pb_rec' = pb_Set(pb_rec, p, IF outcome = "ok" THEN Ok("rm") ELSE Err("CommandFailed", "rm"))
    /\ IF outcome = "ok"
         THEN pb_pc' = pb_Set(pb_pc, p, "upload") /\ UNCHANGED pb_result
         ELSE pb_Return(p, UploadFailure(NoResult))
    /\ UNCHANGED <<pb_now, pb_cfg, pb_stderr, pb_obs, pb_up, pb_ver, pb_repo, pb_broken>>
    /\ pb_Frame
delete_lockfile(p, outcome) ==
    LET rec == IF outcome # "ok" THEN Err("CommandFailed", "rm")
               ELSE IF pb_obs[p].kind = "few_fields" THEN Err("CommandFailed", "no_timestamp")
               ELSE Ok("rm")
        inProgress == pb_marker # NoMarker /\ pb_pc[pb_marker.owner] = "uploading"
    IN  /\ pb_pc[p] = "rm"
        /\ pb_cmds' = pb_Set(pb_cmds, p, Append(pb_cmds[p], "rm"))
        /\ pb_rm' = pb_Set(pb_rm, p, outcome)
        /\ pb_marker' = IF outcome = "ok" THEN NoMarker ELSE pb_marker
        /\ pb_broken' = IF outcome = "ok" /\ inProgress /\ pb_broken = NoBreak
                          THEN [by |-> p, owner |-> pb_marker.owner, obs |-> pb_obs[p]]
                          ELSE pb_broken
        /\ pb_rec' = pb_Set(pb_rec, p, rec)
        /\ pb_Return(p, UploadFailure(rec))
        /\ UNCHANGED <<pb_now, pb_cfg, pb_stderr, pb_obs, pb_up, pb_ver, pb_repo>>
        /\ pb_Frame

\* verify_upload: deb-s3 verify, read-only; publish() returns its error
\* (`?`) and Ok(()) otherwise.
VerifyOutcomes == {"ok", "spawn_failed", "exit_failed"}
VerifyResult_Ignored(outcome) == Ok("publish")
VerifyResult(outcome) ==
    IF outcome = "ok" THEN Ok("publish") ELSE Err("CommandFailed", "verify")

verify_upload(p, outcome) ==
    /\ pb_pc[p] = "verify"
    /\ pb_cmds' = pb_Set(pb_cmds, p, Append(pb_cmds[p], "verify"))
    /\ pb_ver' = pb_Set(pb_ver, p, outcome)
    /\ pb_Return(p, VerifyResult(outcome))
    /\ UNCHANGED <<pb_now, pb_marker, pb_cfg, pb_stderr, pb_obs, pb_rec, pb_rm, pb_broken,
                   pb_up, pb_repo>>
    /\ pb_Frame

\* The caller takes the result; the publisher may be run again.
pb_NextCall(p) ==
    /\ pb_pc[p] = "done"
    /\ pb_pc' = pb_Set(pb_pc, p, "idle")
    /\ pb_cfg' = pb_Set(pb_cfg, p, NoPublishConfig)
    /\ pb_stderr' = pb_Set(pb_stderr, p, "")
    /\ pb_obs' = pb_Set(pb_obs, p, NoObs)
    /\ pb_rec' = pb_Set(pb_rec, p, NoResult)
    /\ pb_rm' = pb_Set(pb_rm, p, "")
    /\ pb_cmds' = pb_Set(pb_cmds, p, <<>>)
    /\ pb_result' = pb_Set(pb_result, p, NoResult)
    /\ pb_up' = pb_Set(pb_up, p, "")
    /\ pb_ver' = pb_Set(pb_ver, p, "")
    /\ UNCHANGED <<pb_now, pb_marker, pb_broken, pb_repo>>
    /\ pb_Frame

\* Time passes.
pb_Tick(t) ==
    /\ t > pb_now
    /\ pb_now' = t
    /\ UNCHANGED <<pb_marker, pb_pc, pb_cfg, pb_stderr, pb_obs, pb_rec, pb_rm, pb_cmds,
                   pb_result, pb_broken, pb_up, pb_ver, pb_repo>>
    /\ pb_Frame

pb_Quiet ==
    /\ pb_now = 0
    /\ pb_marker = NoMarker
    /\ pb_pc = [p \in Pubs |-> "idle"]
    /\ pb_cfg = [p \in Pubs |-> NoPublishConfig]
    /\ pb_stderr = [p \in Pubs |-> ""]
    /\ pb_obs = [p \in Pubs |-> NoObs]
    /\ pb_rec = [p \in Pubs |-> NoResult]
    /\ pb_rm = [p \in Pubs |-> ""]
    /\ pb_cmds = [p \in Pubs |-> <<>>]
    /\ pb_result = [p \in Pubs |-> NoResult]
    /\ pb_broken = NoBreak
    /\ pb_up = [p \in Pubs |-> ""]
    /\ pb_ver = [p \in Pubs |-> ""]
    /\ pb_repo = {}

pb_Init == pb_Quiet

----------------------------------------------------------------------------
(*                 StorageBackend and ContentAddressedCache                *)

\* How often the upstream store may change between calls in one model run.
MaxRemoteChanges == 1

Backends == {"local", "gs", "hetzner"}

Hashes == {"md5-a", "md5-b"}
NoHash == ""                \* no such file
Reversioned == "md5-r"      \* the content of an archive the reversioner built
NoPick == [file |-> <<>>, hash |-> NoHash]

\* Files "<artifact-full-name>_<version>.deb", remote and cached alike.
CacheFiles == Names \X Versions

\* file_name.starts_with("<artifact_full_name>_")
HasPrefix(file, artifact) == file[1] = artifact

\* The files the remote pattern <root>/<build>/debians/<codename>/<name>_* names.
RemoteMatches(remote, artifact) ==
    {f \in CacheFiles : HasPrefix(f, artifact) /\ remote[f] # NoHash}

\* The file whose hash storage.md5 returns when the pattern names several:
\* the first one the command prints, in name order.
VersionOrder == <<"1.0.0", "1.0.1">>
Rank(version) == CHOOSE i \in 1..Len(VersionOrder) : VersionOrder[i] = version
FirstMatch(remote, artifact) ==
    CHOOSE f \in RemoteMatches(remote, artifact) :
        \A g \in RemoteMatches(remote, artifact) : Rank(f[2]) <= Rank(g[2])

\* The cached files the scan looks at.
Prefixed(cache, artifact) == {f \in CacheFiles : cache[f] # NoHash /\ HasPrefix(f, artifact)}

\* local_hash == target_hash
HashMatches_Any(local, target) == local # NoHash
HashMatches_Never(local, target) == FALSE
HashMatches(local, target) == local = target

\* The scan of the cache directory: some file with the artifact's prefix, whose
\* md5sum could be read, has the target hash.
CachedCopy_AnyPrefixed(cache, readable, artifact, target) ==
    \E f \in readable : cache[f] # NoHash /\ HasPrefix(f, artifact)
CachedCopy(cache, readable, artifact, target) ==
    \E f \in readable :
        /\ cache[f] # NoHash
        /\ HasPrefix(f, artifact)
        /\ HashMatches(cache[f], target)

\* get_cached_debian_or_download returns r.
ch_Return(r) ==
    /\ ch_pc' = "done"
    /\ ch_result' = r

\* get_cached_debian_or_download up to the listing: storage.list(remote_path).
\*   failed  the command exits non-zero (also what ls and gsutil do when
\*           nothing matches)
\*   empty   the command succeeds and prints nothing
\*   files   it prints the matching files
ListingOutcomes == {"failed", "empty", "files"}
ListingResult_EmptyAsFailure(outcome) ==
    IF outcome = "files" THEN Ok("list") ELSE Err("CommandFailed", "list")
ListingResult(outcome) ==
    CASE outcome = "failed" -> Err("CommandFailed", "list")
      [] outcome = "empty" -> Err("ArtifactNotFound", "list")
      [] outcome = "files" -> Ok("list")

get_cached_debian_or_download(artifact, outcome) ==
    /\ ch_pc = "idle"
    /\ ch_art' = artifact
    /\ outcome = "files" <=> (outcome # "failed" /\ RemoteMatches(ch_remote, artifact) # {})
    /\ ch_cmds' = <<"list">>
    /\ IF IsErr(ListingResult(outcome))
         THEN ch_Return(ListingResult(outcome))
         ELSE ch_pc' = "md5" /\ UNCHANGED ch_result
    /\ UNCHANGED <<ch_backend, ch_remote, ch_dir, ch_cache, ch_target, ch_changes,
                   ch_read, ch_seen, ch_fresh, ch_picked>>
    /\ ch_Frame

\* storage.md5(remote_path): the hash of a file the pattern names.
\*   failed        non-zero exit
\*   unparsable    gs only: no "Hash (md5)" line with a third field
\*   blank         local and hetzner only: empty output, the hash is ""
\*   hash          the hash of the first matching file
Md5Outcomes == {"failed", "unparsable", "blank", "hash"}
storage_md5(outcome, file) ==
    /\ ch_pc = "md5"
    /\ file = FirstMatch(ch_remote, ch_art)
    /\ outcome = "unparsable" => ch_backend = "gs"
    /\ outcome = "blank" => ch_backend # "gs"
    /\ ch_cmds' = Append(ch_cmds, "md5")
    /\ CASE outcome = "failed" -> ch_Return(Err("CommandFailed", "md5")) /\ UNCHANGED ch_target
         [] outcome = "unparsable" -> ch_Return(Err("StorageError", "md5")) /\ UNCHANGED ch_target
         [] outcome = "blank" -> ch_pc' = "scan" /\ ch_target' = NoHash /\ UNCHANGED ch_result
         [] outcome = "hash" -> ch_pc' = "scan" /\ ch_target' = ch_remote[file] /\ UNCHANGED ch_result
    /\ UNCHANGED <<ch_backend, ch_remote, ch_dir, ch_cache, ch_art, ch_changes,
                   ch_read, ch_seen, ch_fresh, ch_picked>>
    /\ ch_Frame

\* create_dir_all(cache_folder/codename), then the scan of that directory;
\* readable are the files with the artifact's prefix whose md5sum produced a
\* hash.
scan_cache(mkdirOk, readable) ==
    /\ ch_pc = "scan"
    /\ readable \subseteq Prefixed(ch_cache, ch_art)
    /\ UNCHANGED <<ch_backend, ch_remote, ch_cache, ch_art, ch_target, ch_cmds, ch_changes,
                   ch_seen, ch_fresh, ch_picked>>
    /\ IF ~mkdirOk
         THEN /\ ~ch_dir
              /\ readable = {}
              /\ ch_Return(Err("IoError", "create_dir_all"))
              /\ UNCHANGED <<ch_dir, ch_read>>
         ELSE /\ ch_dir' = TRUE
              /\ ch_read' = readable
              /\ IF CachedCopy(ch_cache, readable, ch_art, ch_target)
                   THEN ch_Return(Ok("cached"))
                   ELSE ch_pc' = "download" /\ UNCHANGED ch_result
    /\ ch_Frame

\* storage.download(remote_path, cache_dir): copies the files the pattern
\* names into the cache directory, overwriting files of the same name.  A
\* failed transfer may have copied some of them.
storage_download(ok, copied) ==
    /\ ch_pc = "download"
    /\ copied \subseteq RemoteMatches(ch_remote, ch_art)
    /\ ok => copied = RemoteMatches(ch_remote, ch_art)
    /\ ch_cmds' = Append(ch_cmds, "download")
    /\ ch_cache' = [f \in CacheFiles |-> IF f \in copied THEN ch_remote[f] ELSE ch_cache[f]]
    /\ ch_Return(IF ok THEN Ok("downloaded") ELSE Err("CommandFailed", "download"))
    /\ UNCHANGED <<ch_backend, ch_remote, ch_dir, ch_art, ch_target, ch_changes,
                   ch_read, ch_seen, ch_fresh, ch_picked>>
    /\ ch_Frame

\* publish_debian after a successful cache step, for a target version that
\* differs from the source version: read_dir of the cache directory, whose
\* order is not specified, gives the first "<full name>_*.deb"; the reversioner
\* gets that file and, when it succeeds, leaves "<full name>_<target>.deb" in the
\* directory.
publish_debian_read_dir(file, target, reversioned) ==
    /\ ch_pc = "done"
    /\ ch_result.kind = "Ok"
    /\ file \in Prefixed(ch_cache, ch_art)
    /\ target # file[2]
    /\ ch_picked' = [file |-> file, hash |-> ch_cache[file]]
    /\ ch_pc' = "picked"
    /\ IF reversioned
         THEN ch_cache' = [ch_cache EXCEPT ![<<ch_art, target>>] = Reversioned]
         ELSE UNCHANGED ch_cache
    /\ UNCHANGED <<ch_fresh, ch_backend, ch_remote, ch_dir, ch_art, ch_target, ch_cmds, ch_result,
                   ch_changes, ch_read, ch_seen>>
    /\ ch_Frame

\* The caller takes the result; the cache directory stays as it is.
ch_NextCall ==
    /\ ch_pc \in {"done", "picked"}
    /\ ch_read' = {}
    /\ ch_picked' = NoPick
    /\ ch_seen' = IF ch_result.kind = "Ok" THEN [ch_seen EXCEPT ![ch_art] = ch_target]
                   ELSE ch_seen
    /\ ch_fresh' = IF ch_result.kind = "Ok" /\ ch_pc = "done" THEN ch_art ELSE ""
    /\ ch_pc' = "idle"
    /\ ch_art' = ""
    /\ ch_target' = NoHash
    /\ ch_cmds' = <<>>
    /\ ch_result' = NoResult
    /\ UNCHANGED <<ch_backend, ch_remote, ch_dir, ch_cache, ch_changes>>
    /\ ch_Frame

\* Upstream replaces, adds or removes an artifact between two calls.
ch_RemoteChange(file, hash) ==
    /\ ch_pc = "idle"
    /\ ch_changes < MaxRemoteChanges
    /\ ch_remote[file] # hash
    /\ ch_remote' = [ch_remote EXCEPT ![file] = hash]
    /\ ch_changes' = ch_changes + 1
    /\ ch_fresh' = ""
    /\ UNCHANGED <<ch_backend, ch_pc, ch_dir, ch_cache, ch_art, ch_target, ch_cmds, ch_result,
                   ch_read, ch_seen, ch_picked>>
    /\ ch_Frame

ch_Idle ==
    /\ ch_pc = "idle"
    /\ ch_dir = FALSE
    /\ ch_cache = [f \in CacheFiles |-> NoHash]
    /\ ch_art = ""
    /\ ch_target = NoHash
    /\ ch_cmds = <<>>
    /\ ch_result = NoResult
    /\ ch_changes = 0
    /\ ch_read = {}
    /\ ch_seen = [a \in Names |-> NoHash]
    /\ ch_fresh = ""
    /\ ch_picked = NoPick

ch_Quiet ==
    /\ ch_Idle
    /\ ch_backend = "gs"
    /\ ch_remote = [f \in CacheFiles |-> NoHash]

\* Any backend, any set of files in the remote store, the two versions with
\* different content (upstream changes bring in any content), an empty cache.
InitialHash(file) == IF file[2] = "1.0.0" THEN "md5-a" ELSE "md5-b"
ch_Init ==
    /\ ch_Idle
    /\ ch_backend \in Backends
    /\ \E present \in SUBSET CacheFiles :
          ch_remote = [f \in CacheFiles |-> IF f \in present THEN InitialHash(f) ELSE NoHash]

----------------------------------------------------------------------------
(*                            RegistryPromoter                             *)

GCR_REGISTRY == "gcr.io/o1labs-192920"
DOCKER_IO_REGISTRY == "docker.io/minaprotocol"
Registries == {GCR_REGISTRY, DOCKER_IO_REGISTRY}

ImageNames == {"mina-daemon"}
Tags == {"1.0.0-bullseye-devnet", "1.0.1-bullseye-devnet"}

\* format!("{}/{}:{}", registry, image_name, tag)
ImageRef(registry, name, tag) == <<registry, name, tag>>
Refs == Registries \X ImageNames \X Tags

Digests == {"sha256:a", "sha256:b"}
NoImage == ""               \* no image at the reference

DockerPromoteConfigs ==
    [ name : ImageNames \cup {""},
      source_version : Tags \cup {""},
      target_version : Tags \cup {""},
      publish_to_docker_io : BOOLEAN ]

NoPromoteConfig == [ name |-> "", source_version |-> "", target_version |-> "",
                     publish_to_docker_io |-> FALSE ]

\* DockerPromoter::promote: the DockerRegistryConfig it builds.
TargetRegistry_Swapped(c) == IF c.publish_to_docker_io THEN GCR_REGISTRY ELSE DOCKER_IO_REGISTRY
TargetRegistry(c) == IF c.publish_to_docker_io THEN DOCKER_IO_REGISTRY ELSE GCR_REGISTRY

DockerRegistryConfig(c) ==
    [ source_registry |-> GCR_REGISTRY,
      target_registry |-> TargetRegistry(c),
      image_name |-> c.name,
      source_tag |-> c.source_version,
      target_tag |-> c.target_version ]

\* The configurations a DockerRegistryManager can be built with directly; the
\* source registry is the one the program promotes from, or empty.
DockerRegistryConfigs ==
    [ source_registry : {GCR_REGISTRY, ""},
      target_registry : Registries \cup {""},
      image_name : ImageNames \cup {""},
      source_tag : Tags \cup {""},
      target_tag : Tags \cup {""} ]

NoRegistryConfig ==
    [ source_registry |-> "<none>", target_registry |-> "<none>", image_name |-> "<none>",
      source_tag |-> "<none>", target_tag |-> "<none>" ]

\* The DockerPromoteConfig that names the same promotion as r.
PromoteConfigOf(r) ==
    [ name |-> r.image_name, source_version |-> r.source_tag, target_version |-> r.target_tag,
      publish_to_docker_io |-> (r.target_registry = DOCKER_IO_REGISTRY) ]

\* DockerPromoter::validate_config
PromoterValidate(c) ==
    IF c.name = "" THEN Err("ValidationError", "validate_config")
    ELSE IF c.source_version = "" THEN Err("ValidationError", "validate_config")
    ELSE IF c.target_version = "" THEN Err("ValidationError", "validate_config")
    ELSE Ok("validate_config")

\* DockerRegistryManager::validate_config
ManagerValidate_NoRegistryCheck(r) ==
    IF r.image_name = "" THEN Err("ValidationError", "validate_config")
    ELSE IF r.source_tag = "" THEN Err("ValidationError", "validate_config")
    ELSE IF r.target_tag = "" THEN Err("ValidationError", "validate_config")
    ELSE Ok("validate_config")
ManagerValidate(r) ==
    IF r.source_registry = "" THEN Err("ValidationError", "validate_config")
    ELSE IF r.target_registry = "" THEN Err("ValidationError", "validate_config")
    ELSE IF r.image_name = "" THEN Err("ValidationError", "validate_config")
    ELSE IF r.source_tag = "" THEN Err("ValidationError", "validate_config")
    ELSE IF r.target_tag = "" THEN Err("ValidationError", "validate_config")
    ELSE Ok("validate_config")

\* cross_registry_promote: source_image and target_image.
SourceImage(c) ==
    LET r == DockerRegistryConfig(c) IN ImageRef(r.source_registry, r.image_name, r.source_tag)
TargetImage(c) ==
    LET r == DockerRegistryConfig(c) IN ImageRef(r.target_registry, r.image_name, r.target_tag)

\* promote_docker_image returns r; failedStep is the docker command that
\* failed ("" when none did).
dk_Return(r, failedStep) ==
    /\ dk_pc' = "done"
    /\ dk_result' = r
    /\ dk_failed' = failedStep

\* promote_docker_image up to the first docker command: both validations.
promote_docker_image(c) ==
    /\ dk_pc = "idle"
    /\ dk_cfg' = c
    /\ IF IsErr(PromoterValidate(c))
         THEN dk_Return(PromoterValidate(c), "") /\ UNCHANGED dk_reg
         ELSE /\ dk_reg' = DockerRegistryConfig(c)
              /\ IF IsErr(ManagerValidate(DockerRegistryConfig(c)))
                   THEN dk_Return(ManagerValidate(DockerRegistryConfig(c)), "")
                   ELSE dk_pc' = "pull" /\ UNCHANGED <<dk_result, dk_failed>>
    /\ UNCHANGED <<dk_cmds, dk_registry, dk_local>>
    /\ dk_Frame

\* DockerRegistryManager::cross_registry_promote called on a manager built
\* with r, up to the first docker command: its own validation.
cross_registry_promote(r) ==
    /\ dk_pc = "idle"
    /\ dk_cfg' = PromoteConfigOf(r)
    /\ dk_reg' = r
    /\ IF IsErr(ManagerValidate(r))
         THEN dk_Return(ManagerValidate(r), "")
         ELSE dk_pc' = "pull" /\ UNCHANGED <<dk_result, dk_failed>>
    /\ UNCHANGED <<dk_cmds, dk_registry, dk_local>>
    /\ dk_Frame

\* pull_image(source_image): docker pull.
pull_image(ok) ==
    LET src == SourceImage(dk_cfg)
    IN  /\ dk_pc = "pull"
        /\ ok => dk_registry[src] # NoImage
        /\ dk_cmds' = Append(dk_cmds, <<"pull", src>>)
        /\ IF ok
             THEN /\ dk_local' = [dk_local EXCEPT ![src] = dk_registry[src]]
                  /\ dk_pc' = "tag"
                  /\ UNCHANGED <<dk_result, dk_failed>>
             ELSE /\ dk_Return(Err("CommandFailed", "pull"), "pull")
                  /\ UNCHANGED dk_local
        /\ UNCHANGED <<dk_cfg, dk_reg, dk_registry>>
        /\ dk_Frame

\* tag_image(source_image, target_image): docker tag.
tag_image_IgnoringFailure(ok) ==
    LET src == SourceImage(dk_cfg)
        tgt == TargetImage(dk_cfg)
    IN  /\ dk_pc = "tag"
        /\ dk_cmds' = Append(dk_cmds, <<"tag", src, tgt>>)
        /\ dk_local' = IF ok THEN [dk_local EXCEPT ![tgt] = dk_local[src]] ELSE dk_local
        /\ dk_pc' = "push"
        /\ dk_failed' = IF ok THEN dk_failed ELSE "tag"
        /\ UNCHANGED <<dk_result, dk_cfg, dk_reg, dk_registry>>
        /\ dk_Frame
tag_image(ok) ==
    LET src == SourceImage(dk_cfg)
        tgt == TargetImage(dk_cfg)
    IN  /\ dk_pc = "tag"
        /\ ok => dk_local[src] # NoImage
        /\ dk_cmds' = Append(dk_cmds, <<"tag", src, tgt>>)
        /\ IF ok
             THEN /\ dk_local' = [dk_local EXCEPT ![tgt] = dk_local[src]]
                  /\ dk_pc' = "push"
                  /\ UNCHANGED <<dk_result, dk_failed>>
             ELSE /\ dk_Return(Err("CommandFailed", "tag"), "tag")
                  /\ UNCHANGED dk_local
        /\ UNCHANGED <<dk_cfg, dk_reg, dk_registry>>
        /\ dk_Frame

\* push_image(target_image): docker push.
push_image(ok) ==
    LET tgt == TargetImage(dk_cfg)
    IN  /\ dk_pc = "push"
        /\ ok => dk_local[tgt] # NoImage
        /\ dk_cmds' = Append(dk_cmds, <<"push", tgt>>)
        /\ IF ok
             THEN /\ dk_registry' = [dk_registry EXCEPT ![tgt] = dk_local[tgt]]
                  /\ dk_Return(Ok("promote"), "")
             ELSE /\ dk_Return(Err("CommandFailed", "push"), "push")
                  /\ UNCHANGED dk_registry
        /\ UNCHANGED <<dk_cfg, dk_reg, dk_local>>
        /\ dk_Frame

\* The caller takes the result; registries and the local image store stay.
dk_NextCall ==
    /\ dk_pc = "done"
    /\ dk_pc' = "idle"
    /\ dk_cfg' = NoPromoteConfig
    /\ dk_reg' = NoRegistryConfig
    /\ dk_cmds' = <<>>
    /\ dk_result' = NoResult
    /\ dk_failed' = ""
    /\ UNCHANGED <<dk_registry, dk_local>>
    /\ dk_Frame

dk_Idle ==
    /\ dk_pc = "idle"
    /\ dk_cfg = NoPromoteConfig
    /\ dk_reg = NoRegistryConfig
    /\ dk_cmds = <<>>
    /\ dk_result = NoResult
    /\ dk_failed = ""

dk_Quiet ==
    /\ dk_Idle
    /\ dk_registry = [r \in Refs |-> NoImage]
    /\ dk_local = [r \in Refs |-> NoImage]

\* Any content of the two registries; the local image store may hold images
\* left by earlier pulls.
dk_Init ==
    /\ dk_Idle
    /\ dk_registry \in [Refs -> Digests \cup {NoImage}]
    /\ dk_local \in [Refs -> {"sha256:b", NoImage}]

----------------------------------------------------------------------------
(*  Release operations: commands/publish.rs, commands/promote.rs, fix.rs   *)

\* A name is the sequence of its parts between hyphens: "mina-archive-devnet"
\* is <<"mina", "archive", "devnet">>.  Option::None of a network is the empty
\* name (parse_string_list drops empty items, so no network is empty).
MinaDaemon == <<"mina", "daemon">>
MinaArchive == <<"mina", "archive">>
MinaRosetta == <<"mina", "rosetta">>
MinaLogproc == <<"mina", "logproc">>
NoNetwork == <<>>

get_artifact_with_suffix(artifact, network) ==
    IF network = NoNetwork THEN artifact
    ELSE CASE artifact = MinaDaemon -> <<"mina">> \o network
           [] artifact = MinaRosetta -> <<"mina", "rosetta">> \o network
           [] artifact = MinaArchive -> <<"mina", "archive">> \o network
           [] OTHER -> artifact

\* "-<network>" for the three artifacts that have networks, "" otherwise.
get_suffix(artifact, network) ==
    IF artifact \in {MinaDaemon, MinaRosetta, MinaArchive} /\ network # NoNetwork
    THEN network ELSE <<>>

\* format!("{}-{}{}", version, codename, suffix), version being a sequence of
\* parts itself.
DockerTag(version, codename, suffix) == version \o <<codename>> \o suffix

\* The parsed lists of a run.
ArtifactLists ==
    {<<MinaDaemon>>, <<MinaArchive>>, <<MinaRosetta>>, <<MinaLogproc>>,
     <<MinaDaemon, MinaArchive>>, <<MinaArchive, MinaLogproc>>}
NetworkLists ==
    {<<<<"devnet">>>>, <<<<"devnet">>, <<"mainnet">>>>, <<<<"devnet">>, <<"archive", "devnet">>>>}
CodenameLists == {<<"bullseye">>, <<"bullseye", "focal">>}

\* Option::None of an argument.
Missing == "<missing>"

\* PublishArgs, PromoteArgs and FixArgs; channel is the channel published to
\* (the target channel of a promotion).  Only publish has the strip flag, only
\* promote a source channel, only fix runs without artifacts.
Flags ==
    [ only_dockers : BOOLEAN, only_debians : BOOLEAN, verify : BOOLEAN, dry_run : BOOLEAN,
      strip_network_from_archive : BOOLEAN, publish_to_docker_io : BOOLEAN, debug : BOOLEAN ]
NoFlags ==
    [ only_dockers |-> FALSE, only_debians |-> FALSE, verify |-> FALSE, dry_run |-> FALSE,
      strip_network_from_archive |-> FALSE, publish_to_docker_io |-> FALSE, debug |-> FALSE ]
OperationArgs ==
    { a \in [ cmd : {"publish", "promote", "fix"},
              artifacts : ArtifactLists \cup {<<>>},
              networks : NetworkLists \cup {<<>>},
              codenames : CodenameLists,
              source_version : {"1.0.0"},
              target_version : Versions,
              source_channel : {Missing, "", "unstable"},
              channel : {Missing, "", "stable"},
              flags : Flags ] :
        /\ a.cmd = "publish" =>
              /\ a.source_channel = Missing
              /\ a.channel # Missing
              /\ ~a.flags.debug
        /\ a.cmd = "promote" =>
              /\ ~a.flags.strip_network_from_archive
              /\ ~a.flags.debug
              /\ <<a.source_channel, a.channel>> \in
                    {<<"unstable", "stable">>, <<Missing, "stable">>, <<"unstable", "">>,
                     <<"", Missing>>, <<Missing, Missing>>}
        /\ a.cmd = "fix" <=> a.artifacts = <<>>
        /\ a.cmd = "fix" <=> a.networks = <<>>
        /\ a.cmd = "fix" =>
              /\ a.flags \in {NoFlags, [NoFlags EXCEPT !.debug = TRUE]}
              /\ a.target_version = "1.0.0"
              /\ a.source_channel = Missing
              /\ a.channel = "stable" }
NoArgs ==
    [ cmd |-> "", artifacts |-> <<>>, networks |-> <<>>, codenames |-> <<>>,
      source_version |-> "", target_version |-> "", source_channel |-> Missing,
      channel |-> "", flags |-> NoFlags ]

\* validate_required_args: the first argument that is None or empty.
validate_required_args_OnlyAbsent(required) ==
    LET missing == {i \in 1..Len(required) : required[i][2] = Missing}
    IN  IF missing = {} THEN Ok("validate_required_args")
        ELSE Err("MissingParameter", required[Least(missing)][1])
validate_required_args(required) ==
    LET missing == {i \in 1..Len(required) : required[i][2] \in {Missing, ""}}
    IN  IF missing = {} THEN Ok("validate_required_args")
        ELSE Err("MissingParameter", required[Least(missing)][1])

\* The validations execute starts with.
ValidateArgs(args) ==
    LET versions == << <<"target-version", args.target_version>>,
                       <<"source-version", args.source_version>> >>
    IN  CASE args.cmd = "publish" ->
               validate_required_args(versions \o << <<"buildkite-build-id", "build">>,
                                                     <<"channel", args.channel>> >>)
          [] args.cmd = "promote" ->
               IF IsErr(validate_required_args(versions)) THEN validate_required_args(versions)
               ELSE IF ~args.flags.only_dockers
               THEN validate_required_args(<< <<"source-channel", args.source_channel>>,
                                              <<"target-channel", args.channel>> >>)
               ELSE Ok("validate_required_args")
          [] OTHER -> Ok("validate_required_args")

\* A path is <<directory, package name, version>> for
\* "<directory>/<name>_<version>.deb".
NoPath == <<>>
NoIdentity == [artifact |-> <<>>, network |-> <<>>, codename |-> ""]

RECURSIVE Concat(_)
Concat(ss) == IF ss = <<>> THEN <<>> ELSE Head(ss) \o Concat(Tail(ss))

\* if !args.only_dockers, if !args.only_debians, if !dry_run
WantsDebian_Always(args) == TRUE
WantsDebian(args) == ~args.flags.only_dockers
WantsDocker(args) == ~args.flags.only_debians
Publishes_Always(args) == TRUE
Publishes(args) == ~args.flags.dry_run

\* One iteration of the loops: the Debian call, then the call for the image
\* (mina-logproc has no image).
IterationCalls_DockerFirst(args, id) ==
    (IF WantsDocker(args) /\ id.artifact # MinaLogproc
       THEN <<[kind |-> "docker", id |-> id]>> ELSE <<>>)
    \o (IF WantsDebian(args) THEN <<[kind |-> "debian", id |-> id]>> ELSE <<>>)
IterationCalls(args, id) ==
    (IF WantsDebian(args) THEN <<[kind |-> "debian", id |-> id]>> ELSE <<>>)
    \o (IF WantsDocker(args) /\ id.artifact # MinaLogproc
          THEN <<[kind |-> "docker", id |-> id]>> ELSE <<>>)

\* The loops of execute: artifacts, then codenames, then (but for
\* mina-logproc) networks; fix loops over the codenames.
Calls(args) ==
    IF args.cmd = "fix"
    THEN [j \in 1..Len(args.codenames) |->
            [kind |-> "fix", id |-> [NoIdentity EXCEPT !.codename = args.codenames[j]]]]
    ELSE Concat([i \in 1..Len(args.artifacts) |->
           Concat([j \in 1..Len(args.codenames) |->
             LET artifact == args.artifacts[i]
                 nets == IF artifact = MinaLogproc THEN <<NoNetwork>> ELSE args.networks
             IN  Concat([k \in 1..Len(nets) |->
                    IterationCalls(args, [artifact |-> artifact, network |-> nets[k],
                                          codename |-> args.codenames[j]])])])])

\* new_name of publish_debian: "mina-archive" for the archive of a run that
\* strips the network, the full name otherwise.
PublishName(args, id) ==
    IF id.artifact = MinaArchive /\ args.flags.strip_network_from_archive
    THEN MinaArchive
    ELSE get_artifact_with_suffix(id.artifact, id.network)

\* package_path of publish_debian, which is also where the reversioner, given
\* an archive of the cache directory of the codename, writes its output.
PackagePath(args, id) == <<id.codename, PublishName(args, id), args.target_version>>

\* The output of the reversion promote_debian asks for: beside
\* "<debian_repo>/<full name>.deb".
PromotedPath(args, id) ==
    <<"debian_repo", get_artifact_with_suffix(id.artifact, id.network), args.target_version>>

\* The image promote_docker_image pushes for the call.
PushedImage(args, id) ==
    LET suffix == get_suffix(id.artifact, id.network)
    IN  TargetImage([name |-> id.artifact,
                     source_version |-> DockerTag(<<args.source_version>>, id.codename, suffix),
                     target_version |-> DockerTag(<<args.target_version>>, id.codename, suffix),
                     publish_to_docker_io |-> args.flags.publish_to_docker_io])

\* DockerVerifier::verify: "<repo>/<package>:<version>-<codename><suffix>".
DockerVerifierImage(repo, package, version, codename, suffix) ==
    ImageRef(repo, package, DockerTag(version, codename, suffix))

\* The image verify_docker_image pulls for the call: publish passes the full
\* target tag as the version, promote the target version.
VerifiedImage(args, id) ==
    LET suffix == get_suffix(id.artifact, id.network)
        repo == IF args.flags.publish_to_docker_io THEN "docker.io/minaprotocol"
                ELSE "gcr.io/o1labs-192920"
        version == IF args.cmd = "publish"
                   THEN DockerTag(<<args.target_version>>, id.codename, suffix)
                   ELSE <<args.target_version>>
    IN  DockerVerifierImage(repo, id.artifact, version, id.codename, suffix)

\* A command or stage the run started: on what, and whether it succeeded.
Logged(step, arg, ok) ==
    op_log' = Append(op_log, [step |-> step, id |-> op_id, arg |-> arg, ok |-> ok])

op_Fail(result) ==
    /\ op_pc' = "done"
    /\ op_result' = result

execute(args) ==
    /\ op_pc = "idle"
    /\ op_args' = args
    /\ IF IsErr(ValidateArgs(args))
         THEN /\ op_Fail(ValidateArgs(args))
              /\ UNCHANGED op_todo
         ELSE /\ op_todo' = Calls(args)
              /\ op_pc' = "loop"
              /\ UNCHANGED op_result
    /\ UNCHANGED <<op_id, op_rev, op_handed, op_handoffs, op_log>>
    /\ op_Frame

\* the next call of the loops
execute_call ==
    /\ op_pc \in {"loop", "returned"}
    /\ op_todo # <<>>
    /\ op_id' = Head(op_todo).id
    /\ op_todo' = Tail(op_todo)
    /\ op_rev' = NoPath
    /\ op_handed' = NoPath
    /\ op_pc' = Head(op_todo).kind
    /\ UNCHANGED <<op_args, op_handoffs, op_result, op_log>>
    /\ op_Frame

\* the loops are over
execute_return ==
    /\ op_pc \in {"loop", "returned"}
    /\ op_todo = <<>>
    /\ op_pc' = "done"
    /\ op_result' = Ok("execute")
    /\ UNCHANGED <<op_args, op_todo, op_id, op_rev, op_handed, op_handoffs, op_log>>
    /\ op_Frame

\* publish_debian: the package is fetched to the cache
publish_debian_cache(ok) ==
    /\ op_pc = "debian"
    /\ op_args.cmd = "publish"
    /\ Logged("get_cached_debian_or_download", <<>>, ok)
    /\ UNCHANGED <<op_args, op_todo, op_id, op_rev, op_handed, op_handoffs>>
    /\ op_Frame
    /\ IF ok
         THEN /\ op_pc' = IF op_args.source_version # op_args.target_version
                          THEN "cached" ELSE "ready"
              /\ UNCHANGED op_result
         ELSE op_Fail(Err("CommandFailed", "get_cached_debian_or_download"))

\* publish_debian: the cache directory is read for "<full name>_*.deb"
publish_debian_find(found) ==
    /\ op_pc = "cached"
    /\ UNCHANGED <<op_args, op_todo, op_id, op_rev, op_handed, op_handoffs, op_log>>
    /\ op_Frame
    /\ IF found
         THEN /\ op_pc' = "found"
              /\ UNCHANGED op_result
         ELSE op_Fail(Err("IoError", "read_dir"))

\* publish_debian: the archive found is reversioned
publish_debian_reversion(ok) ==
    /\ op_pc = "found"
    /\ Logged("reversion_debian_package", PackagePath(op_args, op_id), ok)
    /\ UNCHANGED <<op_args, op_todo, op_id, op_handed, op_handoffs>>
    /\ op_Frame
    /\ IF ok
         THEN /\ op_rev' = PackagePath(op_args, op_id)
              /\ op_pc' = "ready"
              /\ UNCHANGED op_result
         ELSE /\ UNCHANGED op_rev
              /\ op_Fail(Err("CommandFailed", "reversion_debian_package"))

\* publish_debian: a dry run stops before the publisher
publish_debian_dry_run ==
    /\ op_pc = "ready"
    /\ ~Publishes(op_args)
    /\ op_pc' = "returned"
    /\ UNCHANGED <<op_args, op_todo, op_id, op_rev, op_handed, op_handoffs, op_result, op_log>>
    /\ op_Frame

\* publish_debian: package_path is given to publish_debian_package
publish_debian_publish(ok) ==
    /\ op_pc = "ready"
    /\ Publishes(op_args)
    /\ Logged("publish_debian_package", PackagePath(op_args, op_id), ok)
    /\ op_handed' = PackagePath(op_args, op_id)
    /\ op_handoffs' = op_handoffs \cup
          {[id |-> op_id, name |-> PublishName(op_args, op_id),
            version |-> op_args.target_version, codename |-> op_id.codename,
            channel |-> op_args.channel]}
    /\ UNCHANGED <<op_args, op_todo, op_id, op_rev>>
    /\ op_Frame
    /\ IF ok
         THEN /\ op_pc' = IF op_args.flags.verify THEN "published" ELSE "returned"
              /\ UNCHANGED op_result
         ELSE op_Fail(Err("CommandFailed", "publish_debian_package"))

\* publish_debian and promote_debian: verify_debian_package
verify_debian_package(ok) ==
    /\ op_pc = "published"
    /\ Logged("verify_debian_package", <<>>, ok)
    /\ UNCHANGED <<op_args, op_todo, op_id, op_rev, op_handed, op_handoffs>>
    /\ op_Frame
    /\ IF ok
         THEN /\ op_pc' = "returned"
              /\ UNCHANGED op_result
         ELSE op_Fail(Err("CommandFailed", "verify_debian_package"))

\* promote_debian: a dry run only prints
promote_debian_dry_run ==
    /\ op_pc = "debian"
    /\ op_args.cmd = "promote"
    /\ ~Publishes(op_args)
    /\ op_pc' = "returned"
    /\ UNCHANGED <<op_args, op_todo, op_id, op_rev, op_handed, op_handoffs, op_result, op_log>>
    /\ op_Frame

\* promote_debian: the package is reversioned, its path dropped; the
\* verification, when asked for, follows
promote_debian_reversion(ok) ==
    /\ op_pc = "debian"
    /\ op_args.cmd = "promote"
    /\ Publishes(op_args)
    /\ Logged("reversion_debian_package", PromotedPath(op_args, op_id), ok)
    /\ UNCHANGED <<op_args, op_todo, op_id, op_handed, op_handoffs>>
    /\ op_Frame
    /\ IF ok
         THEN /\ op_rev' = PromotedPath(op_args, op_id)
              /\ op_pc' = IF op_args.flags.verify THEN "published" ELSE "returned"
              /\ UNCHANGED op_result
         ELSE /\ UNCHANGED op_rev
              /\ op_Fail(Err("CommandFailed", "reversion_debian_package"))

\* promote_and_verify_docker: a dry run only prints
promote_and_verify_docker_dry_run ==
    /\ op_pc = "docker"
    /\ ~Publishes(op_args)
    /\ op_pc' = "returned"
    /\ UNCHANGED <<op_args, op_todo, op_id, op_rev, op_handed, op_handoffs, op_result, op_log>>
    /\ op_Frame

\* promote_and_verify_docker: promote_docker_image (pull, tag, push)
promote_and_verify_docker(ok) ==
    /\ op_pc = "docker"
    /\ Publishes(op_args)
    /\ Logged("promote_docker_image", PushedImage(op_args, op_id), ok)
    /\ UNCHANGED <<op_args, op_todo, op_id, op_rev, op_handed, op_handoffs>>
    /\ op_Frame
    /\ IF ok
         THEN /\ op_pc' = IF op_args.flags.verify THEN "pushed" ELSE "returned"
              /\ UNCHANGED op_result
         ELSE op_Fail(Err("CommandFailed", "promote_docker_image"))

\* promote_and_verify_docker: verify_docker_image pulls and tests the image
verify_docker_image(ok) ==
    /\ op_pc = "pushed"
    /\ Logged("verify_docker_image", VerifiedImage(op_args, op_id), ok)
    /\ UNCHANGED <<op_args, op_todo, op_id, op_rev, op_handed, op_handoffs>>
    /\ op_Frame
    /\ IF ok
         THEN /\ op_pc' = "returned"
              /\ UNCHANGED op_result
         ELSE op_Fail(Err("CommandFailed", "verify_docker_image"))

\* fix: deb-s3 verify --fix-manifests for the codename.  With debug the
\* command runs through run_command_with_debug; without it a failing exit
\* status is printed and the loop goes on.
FixOutcomes == {"ok", "spawn_failed", "exit_failed"}
fix_manifests(outcome) ==
    /\ op_pc = "fix"
    /\ Logged("deb-s3 verify --fix-manifests", <<>>, outcome = "ok")
    /\ UNCHANGED <<op_args, op_todo, op_id, op_rev, op_handed, op_handoffs>>
    /\ op_Frame
    /\ CASE outcome = "ok" -> op_pc' = "returned" /\ UNCHANGED op_result
         [] outcome = "spawn_failed" -> op_Fail(Err("IoError", "deb-s3"))
         [] outcome = "exit_failed" ->
              IF op_args.flags.debug
              THEN op_Fail(Err("CommandFailed", "deb-s3"))
              ELSE op_pc' = "returned" /\ UNCHANGED op_result

op_Idle ==
    /\ op_pc = "idle"
    /\ op_args = NoArgs
    /\ op_todo = <<>>
    /\ op_id = NoIdentity
    /\ op_rev = NoPath
    /\ op_handed = NoPath
    /\ op_handoffs = {}
    /\ op_log = <<>>
    /\ op_result = NoResult

op_Quiet == op_Idle

op_Init == op_Idle

----------------------------------------------------------------------------
(*                            Specifications                               *)

NextPublish ==
    \/ \E p \in Pubs, c \in PublishConfigs : publish(p, c)
    \/ \E p \in Pubs, o \in UploadStartOutcomes : upload_start(p, o)
    \/ \E p \in Pubs, o \in UploadEndOutcomes : upload_end(p, o)
    \/ \E p \in Pubs, o \in ListOutcomes : remove_lockfile(p, o)
    \/ \E p \in Pubs, o \in DeleteOutcomes : delete_lockfile(p, o)
    \/ \E p \in Pubs, o \in VerifyOutcomes : verify_upload(p, o)
    \/ \E p \in Pubs : pb_NextCall(p)
    \/ \E t \in TimePoints : pb_Tick(t)

InitPublish == pb_Init /\ rv_Quiet /\ ch_Quiet /\ dk_Quiet /\ cc_Quiet /\ op_Quiet

SpecPublish == InitPublish /\ [][NextPublish]_vars

NextCache ==
    \/ \E a \in Names, o \in ListingOutcomes : get_cached_debian_or_download(a, o)
    \/ \E o \in Md5Outcomes, f \in CacheFiles : storage_md5(o, f)
    \/ \E m \in BOOLEAN, r \in SUBSET CacheFiles : scan_cache(m, r)
    \/ \E ok \in BOOLEAN, c \in SUBSET CacheFiles : storage_download(ok, c)
    \/ ch_NextCall
    \/ \E f \in CacheFiles, h \in Hashes \cup {NoHash} : ch_RemoteChange(f, h)

InitCache == ch_Init /\ rv_Quiet /\ pb_Quiet /\ dk_Quiet /\ cc_Quiet /\ op_Quiet

SpecCache == InitCache /\ [][NextCache]_vars

\* The cache as publish_debian uses it: each successful cache step may be
\* followed by the choice of the archive to reversion.
NextCachedPublish ==
    \/ NextCache
    \/ \E f \in CacheFiles, v \in Versions, r \in BOOLEAN : publish_debian_read_dir(f, v, r)

SpecCachedPublish == InitCache /\ [][NextCachedPublish]_vars

NextPromote ==
    \/ \E c \in DockerPromoteConfigs : promote_docker_image(c)
    \/ \E r \in DockerRegistryConfigs : cross_registry_promote(r)
    \/ \E ok \in BOOLEAN : pull_image(ok)
    \/ \E ok \in BOOLEAN : tag_image(ok)
    \/ \E ok \in BOOLEAN : push_image(ok)
    \/ dk_NextCall

InitPromote == dk_Init /\ rv_Quiet /\ pb_Quiet /\ ch_Quiet /\ cc_Quiet /\ op_Quiet

SpecPromote == InitPromote /\ [][NextPromote]_vars

\* The release commands call the publisher and the promoter one after the
\* other, and the two share no state: publish calls are explored while the
\* promoter has touched nothing, promotions while no publisher has.
NextRelease ==
    \/ dk_Quiet /\ NextPublish
    \/ pb_Quiet /\ NextPromote

InitRelease == pb_Init /\ dk_Init /\ rv_Quiet /\ ch_Quiet /\ cc_Quiet /\ op_Quiet

SpecRelease == InitRelease /\ [][NextRelease]_vars

NextControl == update_control_content

InitControl == cc_Init /\ rv_Quiet /\ pb_Quiet /\ ch_Quiet /\ dk_Quiet /\ op_Quiet

SpecControl == InitControl /\ [][NextControl]_vars

\* One run of publish or promote.
NextOperation ==
    \/ \E args \in (IF op_pc = "idle" THEN OperationArgs ELSE {}) : execute(args)
    \/ execute_call
    \/ execute_return
    \/ \E ok \in BOOLEAN : publish_debian_cache(ok)
    \/ \E found \in BOOLEAN : publish_debian_find(found)
    \/ \E ok \in BOOLEAN : publish_debian_reversion(ok)
    \/ publish_debian_dry_run
    \/ \E ok \in BOOLEAN : publish_debian_publish(ok)
    \/ \E ok \in BOOLEAN : verify_debian_package(ok)
    \/ promote_debian_dry_run
    \/ \E ok \in BOOLEAN : promote_debian_reversion(ok)
    \/ promote_and_verify_docker_dry_run
    \/ \E ok \in BOOLEAN : promote_and_verify_docker(ok)
    \/ \E ok \in BOOLEAN : verify_docker_image(ok)
    \/ \E o \in FixOutcomes : fix_manifests(o)

InitOperation == op_Init /\ rv_Quiet /\ pb_Quiet /\ ch_Quiet /\ dk_Quiet /\ cc_Quiet

SpecOperation == InitOperation /\ [][NextOperation]_vars

NextReversion ==
    \/ \E cfg \in ReversionConfigs, tempOk \in BOOLEAN : reversion_debian_package(cfg, tempOk)
    \/ \E o \in ExtractOutcomes : extract_package(o)
    \/ \E o \in ModifyOutcomes, c \in ChangelogOutcomes : modify_control_files(o, c)
    \/ \E o \in RebuildOutcomes : rebuild_package(o)
    \/ rv_NextCall

InitReversion == rv_Init /\ pb_Quiet /\ ch_Quiet /\ dk_Quiet /\ cc_Quiet /\ op_Quiet

SpecReversion == InitReversion /\ [][NextReversion]_vars

----------------------------------------------------------------------------
(*                               Claims                                    *)

Issued(cmds, c) == \E i \in 1..Len(cmds) : cmds[i] = c

\* C1: every call of the reversioner that found the source archive leaves
\* it in place with its content unchanged, and the archive a successful call
\* produces is a different file from the source.
C1_SourceArchiveUntouched ==
    (rv_pc = "done" /\ rv_src0 # Absent) =>
        /\ rv_fs[rv_cfg.deb_path] = rv_src0
        /\ rv_result.kind = "Ok" => NewDebPath(rv_cfg) # rv_cfg.deb_path

\* C4: the stages run in the order validate, extract, patch, repack, each
\* at most once and only after the earlier ones succeeded; a stage's failure
\* ends the call with an error and no later stage starts; success means
\* all four ran.
C4_LinearStages ==
    /\ IsPrefix(rv_trace, Stages)
    /\ rv_pc = "validated" => rv_trace = SubSeq(Stages, 1, 1)
    /\ rv_pc = "extracted" => rv_trace = SubSeq(Stages, 1, 2)
    /\ rv_pc = "patched" => rv_trace = SubSeq(Stages, 1, 3)
    /\ rv_failed # "" =>
          /\ rv_pc = "done"
          /\ IsErr(rv_result)
          /\ rv_trace # <<>>
          /\ rv_trace[Len(rv_trace)] = rv_failed
    /\ rv_result.kind = "Ok" => rv_pc = "done" /\ rv_failed = "" /\ rv_trace = Stages
    /\ IsErr(rv_result) => rv_pc = "done"

\* C4 witness: patching failed after validation and extraction succeeded;
\* the call ended there.
C4_Witness ==
    /\ rv_pc = "done"
    /\ rv_failed = "modify_control_files"
    /\ rv_trace = SubSeq(Stages, 1, 3)
    /\ IsErr(rv_result)

Uploading == {p \in Pubs : pb_pc[p] = "uploading"}

\* C2 as stated: at most one publisher is inside its upload, and the marker
\* of an upload in progress is in place.
C2_ExclusiveUpload ==
    /\ Cardinality(Uploading) <= 1
    /\ \A p \in Uploading : pb_marker # NoMarker /\ pb_marker.owner = p

\* C2 amended: the upload is exclusive and its marker in place until another
\* publisher's lock recovery deletes the marker of an upload in progress,
\* which it does only after its listing showed an age above the threshold
\* or too few fields.
C2_ExclusiveUntilRecovery ==
    /\ pb_broken = NoBreak => C2_ExclusiveUpload
    /\ pb_broken # NoBreak =>
          /\ pb_broken.by # pb_broken.owner
          /\ \/ pb_broken.obs.kind = "few_fields"
             \/ pb_broken.obs.kind = "stamp" /\ pb_broken.obs.age > StaleAfter

\* C2 witness: recovery removed the marker of a running upload and a second
\* publisher is now inside its upload too.
C2_Witness ==
    /\ pb_broken # NoBreak
    /\ pb_broken.obs.kind = "stamp"
    /\ Cardinality(Uploading) = 2

LockConflictDone(p) == pb_pc[p] = "done" /\ pb_stderr[p] = "lock"

\* C7: after a lock-conflict failure with a marker older than 5 minutes,
\* publish has issued upload, listing and delete, each once and in that order
\* (no second upload), returns the upload failure, and a delete command that
\* succeeded has removed the marker.
C7_StaleMarker ==
    /\ [](\A p \in Pubs :
            (LockConflictDone(p) /\ pb_obs[p].kind = "stamp" /\ pb_obs[p].age > StaleAfter) =>
                /\ pb_cmds[p] = <<"upload", "ls", "rm">>
                /\ pb_result[p] = Err("CommandFailed", "upload"))
    /\ [][\A p \in Pubs :
            (pb_pc[p] = "rm" /\ pb_rm'[p] = "ok") => pb_marker' = NoMarker]_vars

\* C7 witness: the marker was older than 5 minutes, the delete succeeded.
C7_Witness ==
    \E p \in Pubs :
        /\ LockConflictDone(p)
        /\ pb_obs[p].kind = "stamp"
        /\ pb_obs[p].age > StaleAfter
        /\ pb_rm[p] = "ok"
        /\ pb_marker = NoMarker

\* C8 as stated: a marker aged 300 s or more is removed, a younger one never.
C8_RemovedFrom300 ==
    \A p \in Pubs :
        (LockConflictDone(p) /\ pb_obs[p].kind = "stamp") =>
            (Issued(pb_cmds[p], "rm") <=> pb_obs[p].age >= StaleAfter)

\* C8 amended: recovery that parsed the marker's timestamp issues the delete
\* exactly when the age is strictly above 300 s; at 300 s the marker stays.
C8_RemovedAbove300 ==
    \A p \in Pubs :
        (LockConflictDone(p) /\ pb_obs[p].kind = "stamp") =>
            (Issued(pb_cmds[p], "rm") <=> pb_obs[p].age > StaleAfter)

\* C8 witness: a marker exactly 300 s old was left in place.
C8_Witness ==
    \E p \in Pubs :
        /\ LockConflictDone(p)
        /\ pb_obs[p].kind = "stamp"
        /\ pb_obs[p].age = StaleAfter
        /\ ~Issued(pb_cmds[p], "rm")
        /\ pb_marker # NoMarker

RecentMarkerDone(p) ==
    LockConflictDone(p) /\ pb_obs[p].kind = "stamp" /\ pb_obs[p].age < StaleAfter

\* C9 as stated: with a marker younger than 5 minutes no delete is issued and
\* publish returns a ValidationError.
C9_ReportsValidationError ==
    \A p \in Pubs :
        RecentMarkerDone(p) =>
            /\ ~Issued(pb_cmds[p], "rm")
            /\ pb_result[p].kind = "ValidationError"

\* C9 amended: with a marker younger than 5 minutes no delete is issued,
\* remove_lockfile returns the concurrency ValidationError, and publish
\* returns the CommandFailed of the upload.
C9_RecoveryReportsValidationError ==
    \A p \in Pubs :
        RecentMarkerDone(p) =>
            /\ pb_cmds[p] = <<"upload", "ls">>
            /\ pb_rec[p] = Err("ValidationError", "too_recent")
            /\ pb_result[p] = Err("CommandFailed", "upload")

\* C9 witness: a publisher returned after finding a marker 299 s old, which
\* is still there.
C9_Witness ==
    \E p \in Pubs :
        /\ RecentMarkerDone(p)
        /\ pb_obs[p].age = StaleAfter - 1
        /\ pb_marker # NoMarker

\* C10: whenever the timestamp cannot be parsed (too few fields, or a malformed
\* date), recovery issues the delete and publish reports failure.
C10_UnparsableDeleted ==
    \A p \in Pubs :
        (LockConflictDone(p) /\ pb_obs[p].kind \in {"few_fields", "bad_date"}) =>
            /\ Issued(pb_cmds[p], "rm")
            /\ IsErr(pb_result[p])

\* C3: whenever get_cached_debian_or_download returns success, the cache
\* subdirectory exists and holds a file with the artifact's name prefix whose
\* hash is the hash of the remote artifact (the target hash, when one was read).
C3_CachedCopyMatchesRemote ==
    (ch_pc = "done" /\ ch_result.kind = "Ok") =>
        /\ ch_dir
        /\ \E f \in CacheFiles, g \in CacheFiles :
              /\ f[1] = ch_art /\ g[1] = ch_art
              /\ ch_cache[f] # NoHash
              /\ ch_cache[f] = ch_remote[g]
        /\ ch_target # NoHash =>
              \E f \in CacheFiles : f[1] = ch_art /\ ch_cache[f] = ch_target

\* C3 witness: after an upstream change the call downloaded again, over a
\* cache that held the earlier content.
C3_Witness ==
    /\ ch_pc = "done"
    /\ ch_result = Ok("downloaded")
    /\ ch_changes = 1
    /\ ch_target = "md5-b"
    /\ \E f \in CacheFiles : f[1] = ch_art /\ ch_cache[f] = "md5-b"

\* The references and the commands of a promotion, from its configuration.
PromoteSource(c) == <<"gcr.io/o1labs-192920", c.name, c.source_version>>
PromoteTarget(c) ==
    <<IF c.publish_to_docker_io THEN "docker.io/minaprotocol" ELSE "gcr.io/o1labs-192920",
      c.name, c.target_version>>
PromoteCmds(c) ==
    << <<"pull", PromoteSource(c)>>,
       <<"tag", PromoteSource(c), PromoteTarget(c)>>,
       <<"push", PromoteTarget(c)>> >>

\* C5: the docker commands of a promotion are pull(source), tag(source ->
\* target), push(target), in that order, each issued only after the one
\* before it succeeded; the first failure ends the call with CommandFailed of
\* that step and nothing is issued after it.
C5_PullTagPush ==
    /\ IsPrefix(dk_cmds, PromoteCmds(dk_cfg))
    /\ dk_pc = "pull" => Len(dk_cmds) = 0
    /\ dk_pc = "tag" => Len(dk_cmds) = 1
    /\ dk_pc = "push" => Len(dk_cmds) = 2
    /\ dk_failed # "" =>
          /\ dk_pc = "done"
          /\ dk_result = Err("CommandFailed", dk_failed)
          /\ dk_cmds # <<>>
          /\ dk_cmds[Len(dk_cmds)][1] = dk_failed
    /\ dk_result.kind = "Ok" => dk_failed = "" /\ dk_cmds = PromoteCmds(dk_cfg)

\* C5 witness: pull succeeded, tag failed, no push was issued.
C5_Witness ==
    /\ dk_pc = "done"
    /\ dk_failed = "tag"
    /\ Len(dk_cmds) = 2
    /\ dk_result = Err("CommandFailed", "tag")

\* C6: after a successful promotion the target reference, in the registry the
\* selector names, holds the content of the source reference.
C6_TargetHoldsSourceContent ==
    (dk_pc = "done" /\ dk_result.kind = "Ok") =>
        /\ dk_registry[PromoteTarget(dk_cfg)] # NoImage
        /\ dk_registry[PromoteTarget(dk_cfg)] = dk_registry[PromoteSource(dk_cfg)]

\* C6 witness: a promotion to docker.io under a new tag succeeded.
C6_Witness ==
    /\ dk_pc = "done"
    /\ dk_result.kind = "Ok"
    /\ dk_cfg.publish_to_docker_io
    /\ dk_cfg.source_version # dk_cfg.target_version

\* C11: publish returns success only when the upload command and the read-only
\* verify command that follows it both succeeded; when the upload succeeded
\* and verify failed, publish returns an error other than the upload-failure
\* error and the package is in the repository all the same.
C11_SuccessNeedsUploadAndVerify ==
    \A p \in Pubs :
        pb_pc[p] = "done" =>
            /\ pb_result[p].kind = "Ok" =>
                  /\ pb_up[p] = "ok"
                  /\ pb_ver[p] = "ok"
                  /\ pb_cmds[p] = <<"upload", "verify">>
            /\ (pb_up[p] = "ok" /\ pb_ver[p] # "ok") =>
                  /\ IsErr(pb_result[p])
                  /\ pb_result[p] # UploadFailure(pb_rec[p])
                  /\ pb_result[p] # Err("CommandFailed", "upload_spawn")
                  /\ p \in pb_repo

\* an upload that succeeded, followed by a verify that failed
C11_Witness ==
    \E p \in Pubs :
        /\ pb_pc[p] = "done"
        /\ pb_up[p] = "ok"
        /\ pb_ver[p] = "exit_failed"
        /\ p \in pb_repo

\* How often a command was issued by the call in progress.
TimesIssued(cmds, c) == Cardinality({i \in 1..Len(cmds) : cmds[i] = c})
TimesDocker(cmds, c) == Cardinality({i \in 1..Len(cmds) : cmds[i][1] = c})

\* C12: nothing is retried: one publish call issues the upload command at most
\* once, also after lock recovery has deleted a stale marker, and one
\* promotion issues each of pull, tag and push at most once.
C12_NoRetry ==
    /\ \A p \in Pubs : TimesIssued(pb_cmds[p], "upload") <= 1
    /\ \A c \in {"pull", "tag", "push"} : TimesDocker(dk_cmds, c) <= 1

\* a publish call that has returned after its lock recovery deleted a stale
\* marker
C12_Witness ==
    \E p \in Pubs :
        /\ pb_pc[p] = "done"
        /\ pb_obs[p].kind = "stamp"
        /\ pb_rm[p] = "ok"
        /\ pb_marker = NoMarker
        /\ TimesIssued(pb_cmds[p], "upload") = 1

\* C13: a call whose scan read, in the cache directory, a file with the
\* artifact's prefix and the current remote hash does not get to the download;
\* nor does a call right after a successful call for the same artifact, with
\* the remote unchanged, a remote hash obtained and every prefixed file read.
C13_NoDownloadWhenCached ==
    ch_pc = "download" =>
        /\ ~ \E f \in ch_read : HasPrefix(f, ch_art) /\ ch_cache[f] = ch_target
        /\ ~ ( /\ ch_fresh = ch_art
               /\ ch_target # NoHash
               /\ ch_read = Prefixed(ch_cache, ch_art) )

\* the second call right after a successful one has returned from the scan
C13_Witness ==
    /\ ch_pc = "done"
    /\ ch_fresh = ch_art
    /\ ch_target # NoHash
    /\ ch_result = Ok("cached")
    /\ ch_cmds = <<"list", "md5">>

\* C14 as stated: when the remote hash differs from the one of the previous
\* successful call for the artifact, the call issues a download.
C14_ChangedAlwaysDownloads ==
    ( /\ ch_pc = "done"
      /\ ch_seen[ch_art] # NoHash
      /\ ch_target # NoHash
      /\ ch_target # ch_seen[ch_art] )
    => Issued(ch_cmds, "download")

\* C14: when the remote hash differs from the one of the previous successful
\* call for the artifact, the call issues a download unless its scan read a
\* prefixed file in the cache directory that already has the new hash, in
\* which case it returns success without a download.
C14_ChangedDownloadsUnlessCached ==
    ( /\ ch_pc = "done"
      /\ ch_seen[ch_art] # NoHash
      /\ ch_target # NoHash
      /\ ch_target # ch_seen[ch_art]
      /\ ~Issued(ch_cmds, "download") )
    => /\ ch_result = Ok("cached")
       /\ \E f \in ch_read : HasPrefix(f, ch_art) /\ ch_cache[f] = ch_target

\* the hash changed after a successful call and the next call downloaded
C14_Witness ==
    /\ ch_pc = "done"
    /\ ch_seen[ch_art] # NoHash
    /\ ch_target # NoHash
    /\ ch_target # ch_seen[ch_art]
    /\ ch_changes > 0
    /\ ch_cmds = <<"list", "md5", "download">>
    /\ ch_result = Ok("downloaded")

\* C15: a listing that succeeds and names no file makes the call return
\* ArtifactNotFound at once: the listing is the only storage operation, no
\* hash is computed, no cache directory created and nothing downloaded.
C15_EmptyListing ==
    /\ [](ch_result.kind = "ArtifactNotFound" => ch_cmds = <<"list">> /\ ch_pc = "done")
    /\ [][ (\E a \in Names : get_cached_debian_or_download(a, "empty")) =>
             /\ ch_result' = Err("ArtifactNotFound", "list")
             /\ ch_pc' = "done"
             /\ ch_cmds' = <<"list">>
             /\ ch_target' = ch_target
             /\ ch_dir' = ch_dir
             /\ ch_cache' = ch_cache ]_vars

\* ArtifactNotFound returned while the cache directory does not exist
C15_Witness ==
    /\ ch_pc = "done"
    /\ ch_result = Err("ArtifactNotFound", "list")
    /\ ch_target = NoHash
    /\ ~ch_dir

\* C16: a reversioning call whose validation fails has had no side effect when
\* it returns: no stage after validation was started and no temporary
\* directory was created (or removed again) on its behalf.
C16_ValidationBeforeSideEffects ==
    (rv_pc = "done" /\ rv_failed = "validate_inputs") =>
        /\ rv_trace = <<"validate_inputs">>
        /\ rv_fs[rv_cfg.deb_path] = rv_src0
        /\ rv_tmp = "none"

\* What the call was given: a missing archive or an empty name or version.
MissingOrEmpty ==
    \/ rv_src0 = Absent
    \/ rv_cfg.package_name = ""
    \/ rv_cfg.new_name = ""
    \/ rv_cfg.source_version = ""
    \/ rv_cfg.new_version = ""

\* C17: a call that got to validation is rejected there with ValidationError
\* when the source archive is missing or a supplied name or version is empty,
\* and passes validation otherwise.
C17_ValidationRejects ==
    rv_trace # <<>> =>
        /\ MissingOrEmpty =>
              rv_failed = "validate_inputs" /\ rv_result.kind = "ValidationError"
        /\ ~MissingOrEmpty => rv_failed # "validate_inputs"

\* C20: whenever reversion_debian_package has returned, its temporary
\* extraction directory does not exist: it was removed, or never created
\* because creating it is what failed.
C20_TempDirRemoved ==
    rv_pc = "done" =>
        /\ rv_tmp \in {"none", "removed"}
        /\ rv_tmp = "none" => rv_result = Err("IoError", "new")

\* a call that failed after the package was extracted into the directory
C20_Witness ==
    /\ rv_pc = "done"
    /\ rv_failed \in {"modify_control_files", "rebuild_package"}
    /\ rv_tmp = "removed"

\* C18: a publish call given an empty package path, version, bucket, codename
\* or channel, or a package path at which no file exists, returns
\* ValidationError and has issued no upload, listing, delete or verify command.
C18_PublishValidation ==
    \A p \in Pubs :
        (pb_pc[p] # "idle" /\ \E f \in PublishFields \cup {"file"} : pb_cfg[p][f] = "") =>
            /\ pb_pc[p] = "done"
            /\ pb_result[p].kind = "ValidationError"
            /\ pb_cmds[p] = <<>>
            /\ pb_up[p] = "" /\ pb_rm[p] = "" /\ pb_ver[p] = ""

\* every field is set, the package file is missing, and the call has returned
C18_Witness ==
    \E p \in Pubs :
        /\ pb_pc[p] = "done"
        /\ \A f \in PublishFields : pb_cfg[p][f] # ""
        /\ pb_cfg[p]["file"] = ""
        /\ pb_result[p] = Err("ValidationError", "file_exists")

\* What a promotion was given: an empty name or tag, or a manager
\* configuration with an empty value.
EmptyPromotionInput ==
    \/ dk_cfg.name = "" \/ dk_cfg.source_version = "" \/ dk_cfg.target_version = ""
    \/ \E k \in DOMAIN dk_reg : dk_reg[k] = ""

\* C19: a promotion given an empty image name, source tag, target tag or
\* registry value returns ValidationError and no pull, tag or push was issued.
C19_PromoteValidation ==
    (dk_pc # "idle" /\ EmptyPromotionInput) =>
        /\ dk_pc = "done"
        /\ dk_result.kind = "ValidationError"
        /\ dk_cmds = <<>>
        /\ dk_failed = ""

\* the promoter was given an empty target tag and has returned
C19_Witness ==
    /\ dk_pc = "done"
    /\ dk_reg = NoRegistryConfig
    /\ dk_cfg.name # ""
    /\ dk_cfg.source_version # ""
    /\ dk_cfg.target_version = ""
    /\ dk_result.kind = "ValidationError"
    /\ dk_cmds = <<>>

\* The lines of a text, every line feed a separator (unlike str::lines, a
\* final line feed is followed by an empty last line).
RECURSIVE SplitLines(_)
SplitLines(s) ==
    LET i == Find(s, <<NL>>)
    IN  IF i = 0 THEN <<s>>
        ELSE <<SubSeq(s, 1, i - 1)>> \o SplitLines(SubSeq(s, i + 1, Len(s)))

\* The first line that begins with a field name, 0 when there is none.
FirstLineOf(lines, field) ==
    LET at == {i \in 1..Len(lines) : StartsWith(lines[i], <<field, SP>>)}
    IN  IF at = {} THEN 0 ELSE Least(at)

\* The lines patching is meant to change.
Targeted(line) ==
    \/ line = <<"Package:", SP, cc_cfg.package_name>>
    \/ StartsWith(line, <<"Version:", SP>>)
    \/ StartsWith(line, <<"Distribution:", SP>>)

\* C21: patching changes only the Package, Version and Distribution lines:
\* every other line of the input is, up to its trailing blanks, the line at
\* the same place of the output.
C21_OnlyTargetedFieldsChange ==
    cc_pc = "done" =>
        LET in == SplitLines(cc_in)
            out == SplitLines(cc_out)
        IN  \A i \in 1..Len(in) :
                (~Targeted(in[i]) /\ TrimEnd(in[i]) # <<>>) =>
                    i <= Len(out) /\ out[i] = TrimEnd(in[i])

\* C22: the package-name step replaces the lines that read exactly
\* "Package: <old-name>" by "Package: <new-name>" and changes nothing else;
\* without a new name it changes nothing.
C22_ExactPackageLine ==
    cc_pc = "done" =>
        LET in == SplitLines(cc_in)
            out == SplitLines(cc_named)
        IN  /\ Len(out) = Len(in)
            /\ \A i \in 1..Len(in) :
                  out[i] = IF cc_cfg.new_name # NoName
                                /\ in[i] = <<"Package:", SP, cc_cfg.package_name>>
                             THEN <<"Package:", SP, cc_cfg.new_name>>
                             ELSE in[i]

\* C23: the version step replaces the old version by the new one in the first
\* line that begins with "Version: " and changes no other line.
C23_VersionLineOnly ==
    cc_pc = "done" =>
        LET in == SplitLines(cc_named)
            out == SplitLines(cc_versioned)
            v == FirstLineOf(in, "Version:")
        IN  /\ Len(out) = Len(in)
            /\ \A i \in 1..Len(in) :
                  out[i] = IF i = v
                             THEN ReplaceAll(in[i], <<cc_cfg.source_version>>,
                                             <<cc_cfg.new_version>>)
                             ELSE in[i]

\* C24: when the control file has a line that begins with "Distribution: ",
\* the patched content has "Distribution: <new suite>" in its place.
C24_DistributionLine ==
    cc_pc = "done" =>
        LET in == SplitLines(cc_in)
            out == SplitLines(cc_out)
            d == FirstLineOf(in, "Distribution:")
        IN  d # 0 => d <= Len(out) /\ out[d] = <<"Distribution:", SP, cc_cfg.new_suite>>

\* C25: the patched content ends in exactly one line feed and none of its
\* lines ends in a blank.
C25_OneTrailingNewline ==
    cc_pc = "done" =>
        /\ EndsWith(cc_out, <<NL>>)
        /\ ~EndsWith(cc_out, <<NL, NL>>)
        /\ \A i \in 1..Len(SplitLines(cc_out)) :
              LET line == SplitLines(cc_out)[i] IN line = <<>> \/ line[Len(line)] # SP

\* C26: repack writes the archive it built to "<final-name>_<new-version>.deb"
\* beside the source, the final name being the new name when one is supplied
\* and the package name otherwise; a file that was there before is gone before
\* the build, so that after the build the file is the new archive; a build
\* error returns CommandFailed, an output missing after the build NotFound.
C26_RepackOutput ==
    LET final == IF rv_cfg.new_name = NoName THEN rv_cfg.package_name ELSE rv_cfg.new_name
        out == <<final, rv_cfg.new_version>>
    IN  (rv_pc = "done" /\ rv_repack.outcome # "") =>
            /\ rv_repack.outcome = "ok" <=> rv_result.kind = "Ok"
            /\ rv_repack.outcome = "ok" =>
                  /\ rv_fs[out] = Built(rv_builds)
                  /\ rv_fs[out] # rv_repack.before
            /\ rv_repack.outcome \in {"spawn_failed", "exit_failed"} =>
                  /\ rv_result.kind = "CommandFailed"
                  /\ rv_fs[out] = Absent
            /\ rv_repack.outcome = "output_missing" =>
                  /\ rv_result = Err("IoError", "NotFound")
                  /\ rv_fs[out] = Absent

\* an archive was built under the new name, over a file that was there before
C26_Witness ==
    /\ rv_pc = "done"
    /\ rv_repack = [outcome |-> "ok", before |-> Orig]
    /\ rv_cfg.new_name \in Names
    /\ rv_cfg.new_name # rv_cfg.package_name
    /\ rv_fs[<<rv_cfg.new_name, rv_cfg.new_version>>] = Built(1)

\* C27: once the changelog step has run, all its commands succeeding, on a
\* package that ships a compressed changelog under its name, no compressed
\* changelog of that directory is still the shipped one: it has been
\* overwritten by the compressed new entry.
C27_ChangelogOverwritten ==
    (rv_chlog = "ok") =>
        \A n \in CompressedNames :
            rv_doc[<<rv_cfg.package_name, n>>] \in {"absent", "entry"}

\* C28: a failure of the changelog step never ends the call: the call is
\* either about to repack or has gone through repack, and modify_control_files
\* is not the stage that failed.
ChangelogFailed == rv_chlog \in ChangelogOutcomes \ {"ok"}
C28_ChangelogNeverAborts ==
    ChangelogFailed =>
        /\ rv_pc \in {"patched", "done"}
        /\ rv_failed # "modify_control_files"
        /\ rv_pc = "done" =>
              /\ Len(rv_trace) = Len(Stages)
              /\ rv_trace[Len(rv_trace)] = "rebuild_package"

\* a call whose changelog step failed finished with a built archive
C28_Witness ==
    /\ ChangelogFailed
    /\ rv_pc = "done"
    /\ rv_result.kind = "Ok"
    /\ rv_fs[NewDebPath(rv_cfg)] = Built(rv_builds)

\* C29: no two artifact identities of a run give the publisher the same
\* package name and version for the same codename and channel, whether or not
\* the network is stripped from the name of the archive package.
C29_IdentityAddressesOnePackage ==
    \A p, q \in op_handoffs :
        (/\ p.name = q.name
         /\ p.version = q.version
         /\ p.codename = q.codename
         /\ p.channel = q.channel) => p.id = q.id

\* C30: when a call of a run that is not a dry run has reversioned a package
\* and returned, the path the reversioner returned is the one the call gave
\* the repository publisher.
C30_ReversionThenPublish ==
    (/\ op_pc \in {"returned", "done"}
     /\ ~op_args.flags.dry_run
     /\ op_rev # NoPath) => op_handed = op_rev

\* C36: a delete issued by lock recovery after its age check never removes a
\* marker another publisher created less than 5 minutes before the deletion.
C36_DeletesOnlyStaleMarker ==
    [][\A p \in Pubs :
          (/\ pb_pc[p] = "rm"
           /\ pb_obs[p].kind = "stamp"
           /\ pb_rm'[p] = "ok"
           /\ pb_marker # NoMarker
           /\ pb_marker.owner # p) => pb_now - pb_marker.created >= StaleAfter]_vars

\* C39: lock recovery runs only for an upload failure whose stderr mentions
\* the lock: a call whose upload succeeded, or failed with another error text
\* or could not be spawned, has issued no listing and no delete, and the step
\* that ended such an upload left the marker to the upload command itself.
C39_RecoveryOnlyOnLockConflict ==
    /\ [](\A p \in Pubs :
            (pb_stderr[p] # "lock") =>
                /\ ~Issued(pb_cmds[p], "ls")
                /\ ~Issued(pb_cmds[p], "rm")
                /\ pb_obs[p] = NoObs
                /\ pb_rec[p] = NoResult)
    /\ [](\A p \in Pubs :
            (Issued(pb_cmds[p], "ls") \/ Issued(pb_cmds[p], "rm")) =>
                /\ pb_stderr[p] = "lock"
                /\ pb_up[p] = "failed_lock")
    /\ [][\A p \in Pubs :
            (pb_pc[p] = "upload" /\ pb_pc'[p] = "done") => pb_marker' = pb_marker]_vars

\* an upload failed with another error text while another publisher's marker
\* was in place, and the call returned without a listing
C39_Witness ==
    \E p \in Pubs :
        /\ pb_pc[p] = "done"
        /\ pb_stderr[p] = "other"
        /\ pb_up[p] = "failed_other"
        /\ pb_cmds[p] = <<"upload">>
        /\ pb_marker # NoMarker
        /\ pb_marker.owner # p

\* C35: a storage operation whose command failed or printed nothing returns
\* an error, so that the call that issued it has an error result: once the hash
\* command has been issued and produced no hash, the call has failed; and no
\* storage operation is issued twice by one call.
C35_TransportFailureIsError ==
    /\ (Issued(ch_cmds, "md5") /\ ch_target = NoHash) => IsErr(ch_result)
    /\ \A c \in {"list", "md5", "download"} : TimesIssued(ch_cmds, c) <= 1

\* C37: the archive publish_debian gives the reversioner is the cache entry
\* the cache step validated: when that step read a remote hash, the content
\* hash of the archive is that hash.
C37_ReversionsValidatedEntry ==
    (ch_picked # NoPick /\ ch_target # NoHash) => ch_picked.hash = ch_target

\* C40: validate_required_args fails with MissingParameter for the first
\* listed argument that is absent or empty: a promotion that is not restricted
\* to images and whose source or target channel is absent or empty ends with
\* MissingParameter for the first such channel before any command of any
\* combination has started, and whenever a Debian promotion is in progress
\* both channels are present.
C40_ChannelsValidatedFirst ==
    (op_pc # "idle" /\ op_args.cmd = "promote" /\ ~op_args.flags.only_dockers) =>
        LET absent == {Missing, ""}
        IN  IF op_args.source_channel \in absent \/ op_args.channel \in absent
            THEN /\ op_pc = "done"
                 /\ op_log = <<>>
                 /\ op_result = Err("MissingParameter",
                                    IF op_args.source_channel \in absent
                                    THEN "source-channel" ELSE "target-channel")
            ELSE ~(op_pc = "done" /\ op_result.kind = "MissingParameter")

\* a promotion of packages with a source channel and an empty target channel
\* has ended with the target channel reported
C40_Witness ==
    /\ op_pc = "done"
    /\ op_args.cmd = "promote"
    /\ ~op_args.flags.only_dockers
    /\ op_args.source_channel = "unstable"
    /\ op_args.channel = ""
    /\ op_result = Err("MissingParameter", "target-channel")

\* C38: when verification follows an image promotion, the image that is
\* pulled and verified is the image that was just pushed, in the publish and
\* in the promote command.
C38_VerifiesPushedImage ==
    \A i \in 1..Len(op_log) :
        op_log[i].step = "verify_docker_image" =>
            /\ i > 1
            /\ op_log[i - 1].step = "promote_docker_image"
            /\ op_log[i - 1].id = op_log[i].id
            /\ op_log[i - 1].arg = op_log[i].arg

\* The steps of a Debian call and of an image call, as the log names them.
DebianSteps ==
    {"get_cached_debian_or_download", "reversion_debian_package", "publish_debian_package",
     "verify_debian_package"}
DockerSteps == {"promote_docker_image", "verify_docker_image"}

\* C34: with only_dockers no Debian step (cache fetch, reversion, repository
\* upload, package verification) runs for any combination; with only_debians
\* no image promotion and no image verification runs for any combination.
C34_OnlyFlagsRestrict ==
    /\ op_args.flags.only_dockers =>
          /\ \A i \in 1..Len(op_log) : op_log[i].step \notin DebianSteps
          /\ op_handoffs = {}
          /\ op_rev = NoPath
    /\ op_args.flags.only_debians =>
          \A i \in 1..Len(op_log) : op_log[i].step \notin DockerSteps

\* a publish run restricted to images has ended well after promoting and
\* verifying images
C34_Witness ==
    /\ op_pc = "done"
    /\ op_result.kind = "Ok"
    /\ op_args.cmd = "publish"
    /\ op_args.flags.only_dockers
    /\ ~op_args.flags.only_debians
    /\ Len(op_log) >= 2
    /\ op_log[Len(op_log)].step = "verify_docker_image"

\* The place of a combination in the order of the lists: artifact, then
\* codename, then network.
ListPlace(seq, x) == IF \E i \in 1..Len(seq) : seq[i] = x
                     THEN Least({i \in 1..Len(seq) : seq[i] = x}) ELSE 0
ListRank(args, id) ==
    <<ListPlace(args.artifacts, id.artifact), ListPlace(args.codenames, id.codename),
      ListPlace(args.networks, id.network)>>
RankBefore(r, q) ==
    \/ r[1] < q[1]
    \/ r[1] = q[1] /\ r[2] < q[2]
    \/ r[1] = q[1] /\ r[2] = q[2] /\ r[3] < q[3]

\* C31: the combinations are processed one after another in list order, one
\* command at a time: of two commands of a publish or promote run the earlier
\* belongs to the same or to an earlier combination, it has succeeded, within
\* one combination no Debian step follows a step for the image, and the
\* calls still to make belong to the same or to later combinations.
C31_OneCombinationAtATime ==
    op_args.cmd \in {"publish", "promote"} =>
        /\ \A i, j \in 1..Len(op_log) :
              i < j =>
                /\ op_log[i].ok
                /\ ~RankBefore(ListRank(op_args, op_log[j].id), ListRank(op_args, op_log[i].id))
                /\ (op_log[i].id = op_log[j].id /\ op_log[i].step \in DockerSteps)
                      => op_log[j].step \in DockerSteps
        /\ \A i \in 1..Len(op_log), k \in 1..Len(op_todo) :
              ~RankBefore(ListRank(op_args, op_todo[k].id), ListRank(op_args, op_log[i].id))

\* a run over two networks has published the package and promoted the image
\* of the first combination and started on the second
C31_Witness ==
    /\ op_args.cmd = "publish"
    /\ Len(op_log) >= 4
    /\ op_log[1].id # op_log[Len(op_log)].id
    /\ \E i, j \in 1..Len(op_log) :
          /\ i < j
          /\ op_log[i].id = op_log[1].id
          /\ op_log[j].id = op_log[1].id
          /\ op_log[i].step = "publish_debian_package"
          /\ op_log[j].step = "promote_docker_image"

\* The steps that publish: the repository upload, the image promotion and the
\* verifications.
PublishingSteps ==
    {"publish_debian_package", "verify_debian_package", "promote_docker_image",
     "verify_docker_image"}

C32_FailureIsSurfaced ==
    (\E i \in 1..Len(op_log) : ~op_log[i].ok) => (op_pc = "done" /\ IsErr(op_result))

====
